---- MODULE Spec2Model ----
(***************************************************************************)
(* Transport and discovery layer of houdini-mcp.                           *)
(*   host side   : src/houdinimcp_addon.py        (HoudiniMCPServer)       *)
(*   client side : src/src/houdini_mcp/server.py  (HoudiniConnection,      *)
(*                 _discover_instances, get_houdini_connection)            *)
(*                                                                         *)
(* A "byte" of the wire is one unit of a sequence: the JSON punctuation    *)
(* characters, the space, a decimal digit, or one unit of string content.  *)
(***************************************************************************)
EXTENDS Integers, Sequences, FiniteSets, TLC

(***************************************************************************)
(* Part 1.  JSON documents, json.dumps and json.loads                      *)
(***************************************************************************)

\* A JSON value: one record shape for every kind, so that any two values
\* can be compared.  k is the kind, s the units of a string, n a number,
\* e the items of an array or the members (key, val) of an object, in
\* insertion order as a Python dict keeps them.
JStr(s) == [k |-> "str", s |-> s, n |-> 0, e |-> <<>>]
JNum(n) == [k |-> "num", s |-> <<>>, n |-> n, e |-> <<>>]
JArr(e) == [k |-> "arr", s |-> <<>>, n |-> 0, e |-> e]
JObj(e) == [k |-> "obj", s |-> <<>>, n |-> 0, e |-> e]
JNone == [k |-> "none", s |-> <<>>, n |-> 0, e |-> <<>>]
Member(key, val) == [key |-> key, val |-> val]

Digits == <<"0", "1", "2", "3", "4", "5", "6", "7", "8", "9">>
IsDigit(c) == \E i \in 1..Len(Digits) : Digits[i] = c
DigitVal(c) == (CHOOSE i \in 1..Len(Digits) : Digits[i] = c) - 1

\* The units json.dumps escapes with a backslash inside a string.
Escaped == {"\"", "\\"}

RECURSIVE EscapeStr(_)
EscapeStr(s) ==
    IF s = <<>> THEN <<>>
    ELSE (IF Head(s) \in Escaped THEN <<"\\", Head(s)>> ELSE <<Head(s)>>)
         \o EscapeStr(Tail(s))

RECURSIVE DumpNat(_)
DumpNat(n) ==
    IF n < 10 THEN <<Digits[n + 1]>>
    ELSE DumpNat(n \div 10) \o <<Digits[(n % 10) + 1]>>

\* json.dumps with the default separators ", " and ": ".
RECURSIVE JsonDumps(_), DumpItems(_), DumpMembers(_)
JsonDumps(v) ==
    CASE v.k = "str" -> <<"\"">> \o EscapeStr(v.s) \o <<"\"">>
      [] v.k = "num" -> DumpNat(v.n)
      [] v.k = "arr" -> <<"[">> \o DumpItems(v.e) \o <<"]">>
      [] v.k = "obj" -> <<"{">> \o DumpMembers(v.e) \o <<"}">>
      [] OTHER -> <<"n", "u", "l", "l">>
DumpItems(e) ==
    IF e = <<>> THEN <<>>
    ELSE JsonDumps(Head(e))
         \o (IF Tail(e) = <<>> THEN <<>> ELSE <<",", " ">> \o DumpItems(Tail(e)))
DumpMembers(e) ==
    IF e = <<>> THEN <<>>
    ELSE <<"\"">> \o EscapeStr(Head(e).key) \o <<"\"", ":", " ">>
         \o JsonDumps(Head(e).val)
         \o (IF Tail(e) = <<>> THEN <<>> ELSE <<",", " ">> \o DumpMembers(Tail(e)))

\* The result of a scan from position i: failure, or a value and the
\* position after it.
Fail == [ok |-> FALSE, val |-> JNone, nx |-> 0]
Got(v, nx) == [ok |-> TRUE, val |-> v, nx |-> nx]
At(b, i) == IF i >= 1 /\ i <= Len(b) THEN b[i] ELSE "EOF"

\* The whitespace json.loads skips between tokens.
Whitespace == {" ", "\n"}

RECURSIVE SkipWs(_, _)
SkipWs(b, i) == IF At(b, i) \in Whitespace THEN SkipWs(b, i + 1) ELSE i

\* The content of a string whose opening quote is at i - 1.
RECURSIVE ScanStr(_, _, _)
ScanStr(b, i, acc) ==
    CASE At(b, i) = "EOF" -> Fail
      [] At(b, i) = "\"" -> Got(JStr(acc), i + 1)
      [] At(b, i) = "\\" ->
            IF At(b, i + 1) \in Escaped
            THEN ScanStr(b, i + 2, Append(acc, b[i + 1]))
            ELSE Fail
      [] OTHER -> ScanStr(b, i + 1, Append(acc, b[i]))

RECURSIVE ScanDigits(_, _, _)
ScanDigits(b, i, n) ==
    IF IsDigit(At(b, i)) THEN ScanDigits(b, i + 1, 10 * n + DigitVal(b[i]))
    ELSE Got(JNum(n), i)

\* A repeated key keeps its first position and takes the last value.
PutMember(acc, key, val) ==
    IF \E j \in 1..Len(acc) : acc[j].key = key
    THEN [j \in 1..Len(acc) |->
            IF acc[j].key = key THEN Member(key, val) ELSE acc[j]]
    ELSE Append(acc, Member(key, val))

RECURSIVE ScanValue(_, _), ScanItems(_, _, _), ScanMembers(_, _, _)
ScanValue(b, i) ==
    CASE At(b, i) = "\"" -> ScanStr(b, i + 1, <<>>)
      [] At(b, i) = "0" -> Got(JNum(0), i + 1)
      [] IsDigit(At(b, i)) -> ScanDigits(b, i, 0)
      [] At(b, i) = "[" ->
            IF At(b, SkipWs(b, i + 1)) = "]"
            THEN Got(JArr(<<>>), SkipWs(b, i + 1) + 1)
            ELSE ScanItems(b, SkipWs(b, i + 1), <<>>)
      [] At(b, i) = "{" ->
            IF At(b, SkipWs(b, i + 1)) = "}"
            THEN Got(JObj(<<>>), SkipWs(b, i + 1) + 1)
            ELSE ScanMembers(b, SkipWs(b, i + 1), <<>>)
      [] OTHER -> Fail
ScanItems(b, i, acc) ==
    LET r == ScanValue(b, i)
        j == SkipWs(b, r.nx)
    IN  IF ~r.ok THEN Fail
        ELSE CASE At(b, j) = "]" -> Got(JArr(Append(acc, r.val)), j + 1)
               [] At(b, j) = "," ->
                     ScanItems(b, SkipWs(b, j + 1), Append(acc, r.val))
               [] OTHER -> Fail
ScanMembers(b, i, acc) ==
    LET key == IF At(b, i) = "\"" THEN ScanStr(b, i + 1, <<>>) ELSE Fail
        c == SkipWs(b, key.nx)
        r == IF key.ok /\ At(b, c) = ":"
             THEN ScanValue(b, SkipWs(b, c + 1)) ELSE Fail
        j == SkipWs(b, r.nx)
    IN  IF ~r.ok THEN Fail
        ELSE CASE At(b, j) = "}" ->
                     Got(JObj(PutMember(acc, key.val.s, r.val)), j + 1)
               [] At(b, j) = "," ->
                     ScanMembers(b, SkipWs(b, j + 1),
                                 PutMember(acc, key.val.s, r.val))
               [] OTHER -> Fail

\* json.loads: one document, surrounded by nothing but whitespace.  A
\* failure is json.JSONDecodeError.
JsonLoads(b) ==
    LET r == ScanValue(b, SkipWs(b, 1))
    IN  IF r.ok /\ SkipWs(b, r.nx) = Len(b) + 1
        THEN [ok |-> TRUE, val |-> r.val]
        ELSE [ok |-> FALSE, val |-> JNone]

\* dict.get(key, default) on a decoded document.
HasKey(v, key) == v.k = "obj" /\ \E j \in 1..Len(v.e) : v.e[j].key = key
GetKey(v, key, default) ==
    IF HasKey(v, key)
    THEN v.e[CHOOSE j \in 1..Len(v.e) : v.e[j].key = key].val
    ELSE default

(***************************************************************************)
(* Part 2.  Envelopes and the two receivers of the framed stream           *)
(***************************************************************************)

\* send_command's Request Envelope {"type": ..., "params": params or {}}.
Request(type, params) ==
    JObj(<<Member(<<"type">>, JStr(<<type>>)), Member(<<"params">>, params)>>)

\* execute_command's two Response Envelopes.
Success(result) ==
    JObj(<<Member(<<"status">>, JStr(<<"success">>)), Member(<<"result">>, result)>>)
Error(message) ==
    JObj(<<Member(<<"status">>, JStr(<<"error">>)), Member(<<"message">>, JStr(message))>>)

\* recv(8192): at most this many bytes per read.
RecvBufferSize == 8192

Min(a, b) == IF a <= b THEN a ELSE b

RECURSIVE Join(_)
Join(chunks) == IF chunks = <<>> THEN <<>> ELSE Head(chunks) \o Join(Tail(chunks))

\* A faulty variant of HostFeed that forgets to reset the accumulator.
HostFeedKeepsBuffer(buffer, data) ==
    LET r == JsonLoads(buffer \o data)
    IN  [buffer |-> buffer \o data, cmd |-> IF r.ok THEN <<r.val>> ELSE <<>>]

\* _run_server on a non-empty read: self.buffer += data, then json.loads of
\* the whole buffer; on success the buffer is reset and the command is
\* decoded, on JSONDecodeError the bytes stay in the buffer.
HostFeed(buffer, data) ==
    LET r == JsonLoads(buffer \o data)
    IN  IF r.ok THEN [buffer |-> <<>>, cmd |-> <<r.val>>]
        ELSE [buffer |-> buffer \o data, cmd |-> <<>>]

\* A faulty variant that returns what the first read brought.
ClientFeedFirstChunk(chunks, chunk) ==
    [chunks |-> <<>>, ret |-> <<Join(Append(chunks, chunk))>>]

\* Chunks that hold nothing but whitespace are kept as their first unit:
\* json.loads skips the whitespace before a document, so every later
\* decode gives what it would have given with all of them.
Fold(chunks) ==
    LET data == Join(chunks)
    IN  IF data # <<>> /\ \A i \in 1..Len(data) : data[i] \in Whitespace
        THEN <<SubSeq(data, 1, 1)>> ELSE chunks

\* receive_full_response on a non-empty read: chunks.append(chunk), then
\* json.loads of the joined chunks; on success the joined bytes are
\* returned (and the local list is gone), else the loop reads on.
ClientFeed(chunks, chunk) ==
    LET data == Join(Append(chunks, chunk))
    IN  IF JsonLoads(data).ok THEN [chunks |-> <<>>, ret |-> <<data>>]
        ELSE [chunks |-> Fold(Append(chunks, chunk)), ret |-> <<>>]

\* Documents the codec specification sends: requests to the host,
\* responses to the client.
SampleRequests ==
    << Request("get_scene_info", JObj(<<>>)),
       Request("get_node_info", JObj(<<Member(<<"path">>, JStr(<<"/", "obj">>))>>)),
       Request("execute_code",
               JObj(<<Member(<<"code">>, JStr(<<"x", "\"", "}", "\\", "{">>))>>)),
       Request("create_node",
               JObj(<<Member(<<"position">>, JArr(<<JNum(10), JNum(0)>>)),
                      Member(<<"name">>, JStr(<<>>))>>)) >>
SampleResponses ==
    << Success(JObj(<<Member(<<"node_count">>, JNum(105))>>)),
       Error(<<"Unknown command type: ", "noop_probe">>),
       Success(JArr(<<JObj(<<Member(<<"name">>, JStr(<<"]", "\"">>))>>),
                      JObj(<<>>), JNum(0)>>)) >>

\* Other JSON-serializable values: a number, an array, a string.
SampleValues ==
    << JNum(105), JArr(<<JNum(7), JStr(<<>>)>>), JStr(<<"a", "\\", "b">>) >>

\* The client's list of chunks records how the response was split, so the
\* codec specification bounds the number of reads the client needs: the
\* last read allowed takes what is left.
MaxReads == 3

(***************************************************************************)
(* Part 3.  The machine: processes, the clock, the registry directory      *)
(***************************************************************************)

VARIABLES
    codec,      \* the codec specification's document, wire and receiver
    sys,        \* alive: the pids of running processes; clock; launches;
                \* taken: the ports sockets of other programs are bound to
    files,      \* the registry directory: file name -> bytes
    born,       \* history: the descriptors hosts have built, with their tick
    host,       \* per host application: its process and its HoudiniMCPServer
    scan,       \* per scanner: the directory scan it is running
    cli,        \* the client (MCP server process)
    conns,      \* the TCP connections made so far, by id
    thr         \* per host: its accept/serve loop threads, by id

\* The host applications that may run on the machine, and the client as a
\* scanner of the registry.
Hosts == {1, 2}
Client == 0
Scanners == Hosts \cup {Client}
Pids == {1, 2}

\* How many host processes are launched in all.
MaxLaunches == 2
\* How many times the client lists the instances, and how many tool calls
\* that need a connection it serves.
MaxScans == 2
MaxCalls == 2
\* How many times stop() is called on a started server, and how many loop
\* threads a server starts in all.
MaxStops == 1
MaxThreads == 2

\* HoudiniMCPServer.DEFAULT_PORT_RANGE, and a port given explicitly.
DEFAULT_PORT_RANGE == <<9877, 9886>>
ExplicitPorts == {9900}

\* _is_pid_alive: os.kill(pid, 0) succeeds exactly for a running process.
IsPidAlive(pid) == pid \in sys.alive

\* f'houdini_{self.port}.json' and port_file + '.tmp'.
PortFile(port) == <<"houdini_">> \o DumpNat(port) \o <<".json">>
\* A faulty variant that writes the descriptor in place.
TmpFileInPlace(port) == PortFile(port)
TmpFile(port) == PortFile(port) \o <<".tmp">>

\* fname.startswith('houdini_') and fname.endswith('.json')
IsPortFileName(name) ==
    /\ name # <<>>
    /\ name[1] = "houdini_"
    /\ name[Len(name)] = ".json"

WriteFile(fs, name, bytes) ==
    [n \in DOMAIN fs \cup {name} |-> IF n = name THEN bytes ELSE fs[n]]
RemoveFile(fs, name) == [n \in DOMAIN fs \ {name} |-> fs[n]]

\* datetime.now(timezone.utc).isoformat(): the seconds on two digits, the
\* microseconds on six digits after a "." that is left out when they are
\* zero, then the UTC offset.  A tick of the model's clock is one
\* TicksPerSec-th of a second.
TicksPerSec == 2
MicrosPerSec == 1000000

RECURSIVE ZeroPad(_, _)
ZeroPad(ds, width) == IF Len(ds) >= width THEN ds ELSE ZeroPad(<<"0">> \o ds, width)

IsoFormat(t) ==
    LET us == (t % TicksPerSec) * (MicrosPerSec \div TicksPerSec)
    IN  <<"2026-01-01T00:00:">> \o ZeroPad(DumpNat(t \div TicksPerSec), 2)
        \o (IF us = 0 THEN <<>> ELSE <<".">> \o ZeroPad(DumpNat(us), 6))
        \o <<"+00:00">>

\* The code point a unit of a string starts with: str comparison is by
\* code point.
Ord(u) ==
    CASE IsDigit(u) -> 48 + DigitVal(u)
      [] u = "+00:00" -> 43
      [] u = "." -> 46
      [] OTHER -> 50

\* a < b for Python strings.
RECURSIVE StrLess(_, _)
StrLess(a, b) ==
    CASE b = <<>> -> FALSE
      [] a = <<>> -> TRUE
      [] Ord(Head(a)) # Ord(Head(b)) -> Ord(Head(a)) < Ord(Head(b))
      [] OTHER -> StrLess(Tail(a), Tail(b))

\* A faulty variant that advertises the first port of the range whatever
\* port the socket is bound to.
InfoDefaultPort(port, pid, started_at) ==
    JObj(<< Member(<<"port">>, JNum(DEFAULT_PORT_RANGE[1])),
            Member(<<"pid">>, JNum(pid)),
            Member(<<"started_at">>, JStr(started_at)) >>)

\* The descriptor _write_port_file builds.
Info(port, pid, started_at) ==
    JObj(<< Member(<<"port">>, JNum(port)),
            Member(<<"pid">>, JNum(pid)),
            Member(<<"hip_file">>, JStr(<<"/", "untitled.hip">>)),
            Member(<<"hip_name">>, JStr(<<"untitled.hip">>)),
            Member(<<"houdini_version">>, JStr(<<"20.5">>)),
            Member(<<"started_at">>, JStr(started_at)),
            Member(<<"hostname">>, JStr(<<"localhost">>)) >>)

\* json.dump(info, f, indent=2) of a flat dict: one member per line.
RECURSIVE DumpMemberLines(_)
DumpMemberLines(e) ==
    IF e = <<>> THEN <<>>
    ELSE <<"\n", " ", " ", "\"">> \o EscapeStr(Head(e).key) \o <<"\"", ":", " ">>
         \o JsonDumps(Head(e).val)
         \o (IF Tail(e) = <<>> THEN <<>> ELSE <<",">> \o DumpMemberLines(Tail(e)))
JsonDumpIndent(v) ==
    IF v.e = <<>> THEN <<"{", "}">>
    ELSE <<"{">> \o DumpMemberLines(v.e) \o <<"\n", "}">>

(***************************************************************************)
(* Part 4.  A host application: its process and HoudiniMCPServer.start()   *)
(***************************************************************************)

\* No process.  Once launched: the fields of HoudiniMCPServer (port 0,
\* socket 0, client 0, thread 0 and an empty path stand for None), the
\* port its listening socket is bound to, the descriptor being written,
\* and where the thread calling start() or stop() stands (mpc); asked
\* keeps the port the constructor was given.  Of the process besides:
\* hou.session.houdinimcp_server (session: the number of the server it
\* holds, 0 when the attribute is not there), the number of the server the
\* fields describe (obj: init_houdinimcp numbers the servers it constructs
\* from 1, a server constructed otherwise is 0), the plugin function being
\* called (call), how many times init_houdinimcp was called (inits) and
\* the server its last call returned (result, 0 for None).
HostOff ==
    [up |-> FALSE, pid |-> 0, asked |-> 0, port |-> 0, running |-> FALSE, socket |-> 0,
     bound |-> 0, client |-> 0, buffer |-> <<>>, thread |-> 0,
     port_file_path |-> <<>>, info |-> JNone, mpc |-> "off", threads |-> 0,
     stops |-> 0, session |-> 0, obj |-> 0, call |-> "none", inits |-> 0,
     result |-> 0]

ScanIdle ==
    [pc |-> "idle", todo |-> {}, name |-> <<>>, raw |-> <<>>, info |-> JNone,
     probe |-> "none", instances |-> <<>>, dead |-> {}]

\* The ports some listening socket is bound to; bind raises OSError on a
\* port one of them, or a socket of another program (sys.taken), has.
BoundPorts == {host[h].bound : h \in Hosts} \ {0}
PortFree(p) == p \notin BoundPorts /\ p \notin sys.taken

\* info.get('pid'); None and 0 are both falsy.
PidOf(info) ==
    LET v == GetKey(info, <<"pid">>, JNone) IN IF v.k = "num" THEN v.n ELSE 0
PortOf(info) ==
    LET v == GetKey(info, <<"port">>, JNone) IN IF v.k = "num" THEN v.n ELSE 0

\* A faulty variant that never finds a descriptor stale.
StaleNever(info) == FALSE

\* The truth value Python gives a decoded JSON value.
Truthy(v) ==
    CASE v.k = "num" -> v.n # 0
      [] v.k = "str" -> v.s # <<>>
      [] v.k \in {"arr", "obj"} -> v.e # <<>>
      [] OTHER -> FALSE

\* _is_pid_alive(pid) where os.kill is: os.kill(pid, 0) returns for a
\* running process and raises OSError for none; pid 0 stands for the
\* process group of the caller, which os.kill can signal; a pid that is
\* no integer raises TypeError, which the except clause does not catch.
ProbePid(v) ==
    CASE v.k = "num" -> IF v.n = 0 \/ IsPidAlive(v.n) THEN "true" ELSE "false"
      [] OTHER -> "raise"

\* pid = info.get('pid'); if pid and not _is_pid_alive(pid): the probe is
\* made of a truthy pid only.
PidValue(info) == GetKey(info, <<"pid">>, JNone)
\* A faulty variant that probes whatever the descriptor holds as pid.
ProbeAlways(info) == ProbePid(PidValue(info))
Probe(info) == IF Truthy(PidValue(info)) THEN ProbePid(PidValue(info)) ELSE "none"
Stale(info) == Probe(info) = "false"

\* x.get('started_at', '')
SortKey(x) == GetKey(x, <<"started_at">>, JStr(<<>>)).s

\* list.sort(key=..., reverse=True) is stable: an item goes before the
\* first one whose key is smaller.
RECURSIVE InsertNewestFirst(_, _)
InsertNewestFirst(sorted, x) ==
    CASE sorted = <<>> -> <<x>>
      [] StrLess(SortKey(Head(sorted)), SortKey(x)) -> <<x>> \o sorted
      [] OTHER -> <<Head(sorted)>> \o InsertNewestFirst(Tail(sorted), x)

RECURSIVE SortInto(_, _)
SortInto(sorted, rest) ==
    IF rest = <<>> THEN sorted
    ELSE SortInto(InsertNewestFirst(sorted, Head(rest)), Tail(rest))

\* A faulty variant that sorts oldest first (reverse=True forgotten).
RECURSIVE InsertOldestFirst(_, _)
InsertOldestFirst(sorted, x) ==
    CASE sorted = <<>> -> <<x>>
      [] StrLess(SortKey(x), SortKey(Head(sorted))) -> <<x>> \o sorted
      [] OTHER -> <<Head(sorted)>> \o InsertOldestFirst(Tail(sorted), x)
RECURSIVE SortOldestInto(_, _)
SortOldestInto(sorted, rest) ==
    IF rest = <<>> THEN sorted
    ELSE SortOldestInto(InsertOldestFirst(sorted, Head(rest)), Tail(rest))
SortOldestFirst(instances) == SortOldestInto(<<>>, instances)

\* instances.sort(key=lambda x: x.get('started_at', ''), reverse=True)
SortNewestFirst(instances) == SortInto(<<>>, instances)

ScannerRuns(s) ==
    IF s = Client THEN TRUE ELSE host[s].up /\ host[s].mpc = "clean"

\* After the last file the loop is over, and _discover_instances sorts
\* what it returns (_clean_stale_port_files returns nothing).
Settle(s, sc) ==
    IF sc.pc = "files" /\ sc.todo = {}
    THEN [sc EXCEPT !.pc = "done",
                    !.instances = IF s = Client THEN SortNewestFirst(@) ELSE @]
    ELSE sc

\* os.listdir(port_dir): the scan starts with the names now in the
\* directory.
ListDir(s) == Settle(s, [ScanIdle EXCEPT !.pc = "files", !.todo = DOMAIN files])

\* The host application starts as a new process, with any pid no running
\* process has, and constructs its server: HoudiniMCPServer(port=...).
Launch(h) ==
    /\ ~host[h].up /\ sys.launches < MaxLaunches
    /\ \E pid \in Pids \ sys.alive, port \in {0} \cup ExplicitPorts :
         /\ host' = [host EXCEPT ![h] = [HostOff EXCEPT !.up = TRUE, !.pid = pid,
                                                        !.asked = port,
                                                        !.port = port, !.mpc = "new"]]
         /\ sys' = [sys EXCEPT !.alive = @ \cup {pid}, !.launches = @ + 1]
    /\ UNCHANGED <<codec, files, born, scan, cli, conns, thr>>

\* start(), first statement: _clean_stale_port_files lists the directory.
StartBegin(h) ==
    /\ host[h].up /\ host[h].mpc \in {"new", "stopped", "failed"}
    /\ scan[h].pc = "idle" /\ host[h].threads < MaxThreads
    /\ host' = [host EXCEPT ![h].mpc = "clean"]
    /\ scan' = [scan EXCEPT ![h] = ListDir(h)]
    /\ UNCHANGED <<codec, sys, files, born, cli, conns, thr>>

\* A faulty variant that binds the first port of the range when none of
\* the range is free.
BindPortAnyway(h) ==
    IF host[h].port # 0
    THEN IF PortFree(host[h].port) THEN host[h].port ELSE 0
    ELSE LET free == {p \in DEFAULT_PORT_RANGE[1]..DEFAULT_PORT_RANGE[2] : PortFree(p)}
         IN  IF free = {} THEN DEFAULT_PORT_RANGE[1]
             ELSE CHOOSE p \in free : \A q \in free : p <= q

\* The port start() binds: the explicit one if it is free, else the first
\* free port of the range scanned ascending; 0 when bind raises OSError.
BindPort(h) ==
    IF host[h].port # 0
    THEN IF PortFree(host[h].port) THEN host[h].port ELSE 0
    ELSE LET free == {p \in DEFAULT_PORT_RANGE[1]..DEFAULT_PORT_RANGE[2] : PortFree(p)}
         IN  IF free = {} THEN 0 ELSE CHOOSE p \in free : \A q \in free : p <= q

\* What stop() leaves of the server's fields when no thread was started
\* and no port file written (the except branch of start()); start()
\* returns False.
AfterFailedStart(hr) ==
    [hr EXCEPT !.running = FALSE, !.socket = 0, !.bound = 0, !.client = 0,
               !.thread = 0, !.port_file_path = <<>>, !.mpc = "failed"]

\* start() after the cleaning scan: running = True, the socket, bind and
\* listen(1); a failed bind goes through stop() and returns False.
StartBind(h) ==
    /\ host[h].up /\ host[h].mpc = "clean" /\ scan[h].pc = "done"
    /\ scan' = [scan EXCEPT ![h] = ScanIdle]
    /\ LET p == BindPort(h)
       IN  host' = [host EXCEPT ![h] =
                IF p = 0 THEN AfterFailedStart(@)
                ELSE [@ EXCEPT !.running = TRUE, !.socket = 1, !.bound = p,
                               !.port = p, !.mpc = "bound"]]
    /\ UNCHANGED <<codec, sys, files, born, cli, conns, thr>>

\* _write_port_file: info is built (the clock is read) and the temp file
\* is opened for writing, which creates or truncates it.  The clock has
\* moved on by a tick since it was last read: two descriptors never carry
\* the same instant.
WriteOpenTmp(h) ==
    /\ host[h].up /\ host[h].mpc = "bound"
    /\ sys' = [sys EXCEPT !.clock = @ + 1]
    /\ host' = [host EXCEPT ![h].info = Info(host[h].port, host[h].pid,
                                              IsoFormat(sys.clock + 1)),
                            ![h].mpc = "tmp_open"]
    /\ born' = born \cup {[info |-> Info(host[h].port, host[h].pid,
                                         IsoFormat(sys.clock + 1)),
                           tick |-> sys.clock + 1, published |-> FALSE]}
    /\ files' = WriteFile(files, TmpFile(host[h].port), <<>>)
    /\ UNCHANGED <<codec, scan, cli, conns, thr>>

\* json.dump into the temp file: the first bytes may reach the file before
\* the rest does.
WriteDumpPartial(h) ==
    /\ host[h].up /\ host[h].mpc = "tmp_open"
    /\ files[TmpFile(host[h].port)] = <<>>
    /\ LET bytes == JsonDumpIndent(host[h].info)
       IN  files' = WriteFile(files, TmpFile(host[h].port),
                              SubSeq(bytes, 1, Len(bytes) \div 2))
    /\ UNCHANGED <<codec, sys, born, host, scan, cli, conns, thr>>

\* The with block ends: the temp file holds the whole document.
WriteDump(h) ==
    /\ host[h].up /\ host[h].mpc = "tmp_open"
    /\ files' = WriteFile(files, TmpFile(host[h].port), JsonDumpIndent(host[h].info))
    /\ host' = [host EXCEPT ![h].mpc = "tmp_written"]
    /\ UNCHANGED <<codec, sys, born, scan, cli, conns, thr>>

\* os.replace(tmp_file, port_file); self._port_file_path = port_file.
WriteReplace(h) ==
    /\ host[h].up /\ host[h].mpc = "tmp_written"
    /\ LET tmp == TmpFile(host[h].port)
           port_file == PortFile(host[h].port)
       IN  /\ files' = IF tmp = port_file THEN files
                       ELSE RemoveFile(WriteFile(files, port_file, files[tmp]), tmp)
           /\ host' = [host EXCEPT ![h].port_file_path = port_file,
                                   ![h].mpc = "published"]
    /\ born' = {IF b.info = host[h].info THEN [b EXCEPT !.published = TRUE] ELSE b :
                b \in born}
    /\ UNCHANGED <<codec, sys, scan, cli, conns, thr>>

\* The loop thread of a host, where it stands; in execute_command, the
\* command and the connection it was read from.
NewThread == [pc |-> "loop", cmd |-> JNone, conn |-> 0, req |-> 0]

\* start() ends: the thread running _run_server is started, and start()
\* returns True.
StartThread(h) ==
    /\ host[h].up /\ host[h].mpc = "published"
    /\ host' = [host EXCEPT ![h].thread = host[h].threads + 1,
                            ![h].threads = @ + 1,
                            ![h].mpc = "started"]
    /\ thr' = [thr EXCEPT ![h] =
                 [t \in DOMAIN @ \cup {host[h].threads + 1} |->
                    IF t = host[h].threads + 1 THEN NewThread ELSE @[t]]]
    /\ UNCHANGED <<codec, sys, files, born, scan, cli, conns>>

\* self.socket.listen(1): how many connections wait to be accepted.
ListenBacklog == 1

\* A TCP connection to the listening socket of host h: the two ends, the
\* bytes in flight each way, and its history: the requests sent whole on
\* it, the responses the host wrote to it and the last of them, the
\* responses its peer has decoded, and the message of the exception the
\* handler raised (none: <<>>) and the handler invoked (none: <<>>) for
\* the last of the responses, the number of requests the host has decoded
\* from it, and for every response written to it the request it answers
\* (the connection that request was read from and its number there).
NewConn(h, port) ==
    [host |-> h, port |-> port, cend |-> "open", hend |-> "backlog",
     c2h |-> <<>>, h2c |-> <<>>, sent |-> 0, produced |-> 0, got |-> 0,
     resp |-> JNone, fault |-> <<>>, invoked |-> <<>>,
     decoded |-> 0, answers |-> <<>>]

\* close() of one end of a connection: what the other end sent is gone.
\* A connection closed at both ends is over, and its history is dropped.
OverConn == [NewConn(0, 0) EXCEPT !.cend = "closed", !.hend = "closed"]
CloseHostEnd(c) ==
    IF c.cend = "closed" THEN OverConn ELSE [c EXCEPT !.hend = "closed", !.c2h = <<>>]
CloseClientEnd(c) ==
    IF c.hend = "closed" THEN OverConn ELSE [c EXCEPT !.cend = "closed", !.h2c = <<>>]

\* The host process dies (crash or kill): its pid is free again, the
\* operating system closes its sockets, its files stay where they are.
Crash(h) ==
    /\ host[h].up
    /\ sys' = [sys EXCEPT !.alive = @ \ {host[h].pid}]
    /\ host' = [host EXCEPT ![h] = HostOff]
    /\ scan' = [scan EXCEPT ![h] = ScanIdle]
    /\ thr' = [thr EXCEPT ![h] = <<>>]
    /\ conns' = [c \in DOMAIN conns |->
                   IF conns[c].host = h
                   THEN (IF conns[c].cend = "closed" THEN OverConn
                         ELSE [conns[c] EXCEPT !.hend = "closed", !.c2h = <<>>])
                   ELSE conns[c]]
    /\ UNCHANGED <<codec, files, born, cli>>

(***************************************************************************)
(* Part 5.  Scanning the registry: _discover_instances (the client) and    *)
(*          _clean_stale_port_files (a host), one file at a time           *)
(***************************************************************************)

\* A faulty variant of the loop body that removes a file that does not
\* parse.
ScanFileRemovesUnparsed(s) ==
    /\ ScannerRuns(s) /\ scan[s].pc = "files"
    /\ \E name \in scan[s].todo :
         \E readable \in {IsPortFileName(name) /\ name \in DOMAIN files} :
         \E r \in {IF readable THEN JsonLoads(files[name])
                   ELSE [ok |-> FALSE, val |-> JNone]} :
         LET info == r.val
             probe == IF r.ok /\ info.k = "obj" THEN Probe(info) ELSE "none"
             kept == r.ok /\ info.k = "obj" /\ probe # "raise"
         IN  scan' = [scan EXCEPT ![s] = Settle(s,
                [@ EXCEPT !.todo = @ \ {name},
                          !.name = IF readable THEN name ELSE <<>>,
                          !.raw = IF readable THEN files[name] ELSE <<>>,
                          !.info = info,
                          !.probe = probe,
                          !.pc = IF (kept /\ Stale(info)) \/ (readable /\ ~r.ok)
                                 THEN "remove" ELSE "files",
                          !.instances = IF kept /\ ~Stale(info) /\ s = Client
                                        THEN Append(@, info) ELSE @,
                          !.dead = IF kept /\ probe = "false"
                                   THEN @ \cup {[name |-> name, info |-> info]}
                                   ELSE @])]
    /\ UNCHANGED <<codec, sys, files, born, host, cli, conns, thr>>

\* The loop body for any one of the names os.listdir returned.  A name
\* that is no port file name is passed over; a file that is gone, does
\* not parse or holds no object raises, and so does the probe of a pid
\* that is no integer: the scan goes on with the next.  A descriptor
\* that is read is probed: a stale one is to be removed, a live one is
\* appended to the client's instances.  raw is what was read from the
\* file, probe what the probe of its pid gave, and dead records the files
\* whose pid the probe found dead in this scan.
ScanFile(s) ==
    /\ ScannerRuns(s) /\ scan[s].pc = "files"
    /\ \E name \in scan[s].todo :
         \E readable \in {IsPortFileName(name) /\ name \in DOMAIN files} :
         \E r \in {IF readable THEN JsonLoads(files[name])
                   ELSE [ok |-> FALSE, val |-> JNone]} :
         LET info == r.val
             probe == IF r.ok /\ info.k = "obj" THEN Probe(info) ELSE "none"
             kept == r.ok /\ info.k = "obj" /\ probe # "raise"
         IN  scan' = [scan EXCEPT ![s] = Settle(s,
                [@ EXCEPT !.todo = @ \ {name},
                          !.name = IF r.ok THEN name ELSE <<>>,
                          !.raw = IF readable THEN files[name] ELSE <<>>,
                          !.info = info,
                          !.probe = probe,
                          !.pc = IF kept /\ Stale(info) THEN "remove" ELSE "files",
                          !.instances = IF kept /\ ~Stale(info) /\ s = Client
                                        THEN Append(@, info) ELSE @,
                          !.dead = IF kept /\ probe = "false"
                                   THEN @ \cup {[name |-> name, info |-> info]}
                                   ELSE @])]
    /\ UNCHANGED <<codec, sys, files, born, host, cli, conns, thr>>

\* A faulty variant of the removal that leaves the stale file in place.
ScanRemoveKeepsFile(s) ==
    /\ ScannerRuns(s) /\ scan[s].pc = "remove"
    /\ scan' = [scan EXCEPT ![s] = Settle(s, [@ EXCEPT !.pc = "files"])]
    /\ UNCHANGED <<codec, sys, files, born, host, cli, conns, thr>>

\* os.remove(fpath); an error (the file is already gone) is ignored.
ScanRemove(s) ==
    /\ ScannerRuns(s) /\ scan[s].pc = "remove"
    /\ files' = RemoveFile(files, scan[s].name)
    /\ scan' = [scan EXCEPT ![s] = Settle(s, [@ EXCEPT !.pc = "files"])]
    /\ UNCHANGED <<codec, sys, born, host, cli, conns, thr>>

\* The client as a tool call left it.
NoOutcome == [how |-> "none", msg |-> <<>>, cause |-> "none", conn |-> 0]
NoResolution == [done |-> FALSE, pinned |-> 0, live |-> <<>>, port |-> 0]
NoProbe == [result |-> "none", conn |-> 0]
Rest(cl) ==
    [cl EXCEPT !.pc = "idle", !.op = "none", !.type = "none", !.arg = 0,
               !.phase = "none", !.chunks = <<>>, !.probe = NoProbe]

\* The client: no connection object (_houdini_connection is None, with its
\* port and sock 0), no pinned port (_target_port is None), no tool call
\* running.  last is how the last tool call ended, res what the target
\* resolution of the running call saw and chose, prevfault the port of the
\* connection the call before failed on with a transport fault, confirmed
\* the ports connect_to_houdini has reported a connection to, began what
\* the hosts were when the last two listings began, probe how the reuse
\* probe of the running call ended and on which connection.
ClientInit ==
    [pc |-> "idle", listed |-> <<>>, scans |-> 0, calls |-> 0,
     op |-> "none", type |-> "none", arg |-> 0, phase |-> "none",
     connection |-> 0, port |-> 0, sock |-> 0, target_port |-> 0,
     chunks |-> <<>>, last |-> NoOutcome, res |-> NoResolution,
     prevfault |-> 0, confirmed |-> {}, began |-> <<>>, probe |-> NoProbe]

\* What the hosts have done to the registry so far: the processes alive,
\* the launches, the descriptors published and the stops.  It changes with
\* every launch, every os.replace of a start, every stop and every process
\* exit.
Epoch ==
    [alive |-> sys.alive, launches |-> sys.launches,
     published |-> Cardinality({b \in born : b.published}),
     stops |-> [h \in Hosts |-> host[h].stops]]

\* list_houdini_instances calls _discover_instances, which lists the
\* directory.
ListBegin ==
    /\ cli.pc = "idle" /\ cli.scans < MaxScans
    /\ cli' = [cli EXCEPT !.pc = "list", !.scans = @ + 1,
                          !.began = IF @ = <<>> THEN <<Epoch>> ELSE <<@[Len(@)], Epoch>>]
    /\ scan' = [scan EXCEPT ![Client] = ListDir(Client)]
    /\ UNCHANGED <<codec, sys, files, born, host, conns, thr>>

\* list_houdini_instances returns the ports it found.
ListReturn ==
    /\ cli.pc = "list" /\ scan[Client].pc = "done"
    /\ cli' = [cli EXCEPT !.pc = "idle",
                          !.listed = [i \in 1..Len(scan[Client].instances) |->
                                        PortOf(scan[Client].instances[i])]]
    /\ scan' = [scan EXCEPT ![Client] = ScanIdle]
    /\ UNCHANGED <<codec, sys, files, born, host, conns, thr>>

(***************************************************************************)
(* Part 6.  Connections and the accept/serve loop: _run_server,            *)
(*          execute_command, stop()                                        *)
(***************************************************************************)

\* The connections waiting in the backlog of h's listening socket.
Backlog(h) == {c \in DOMAIN conns : conns[c].host = h /\ conns[c].hend = "backlog"}

\* The hosts a connect() to the port reaches: the socket is bound and
\* listening, and its backlog has room.
Listening(port) ==
    {h \in Hosts : host[h].up /\ host[h].bound = port /\ port # 0
                   /\ Cardinality(Backlog(h)) < ListenBacklog}

\* What one recv returns of the bytes in flight: all of them, or only the
\* first half; never more than the buffer size.
ReadSizes(avail) ==
    {Min(n, RecvBufferSize) :
       n \in {Len(avail)} \cup (IF Len(avail) > 1 THEN {Len(avail) \div 2} ELSE {})}

\* execute_command's handler table.
Handlers ==
    {"get_scene_info", "create_node", "modify_node", "delete_node",
     "get_node_info", "execute_code", "set_parameter", "create_geometry",
     "layout_network", "connect_nodes", "set_material", "create_subnet",
     "create_digital_asset", "get_parameter_info", "save_hip", "load_hip",
     "create_camera", "create_light", "create_sim", "run_simulation",
     "export_fbx", "export_abc", "export_usd", "render_scene",
     "screenshot_viewport", "render_cop"}

\* The body of every handler catches what it raises and returns a dict.
\* The call handler(**params) itself raises a TypeError when params does
\* not fit the parameters of the handler: get_scene_info has none and is
\* sent none, the other handlers have required parameters.
MayRaise(type) == type # "get_scene_info"

\* f"{cmd_type}" for a type that can be a key of the handler table: a
\* string, a number, or None when the command has no "type".
TypeStr(t) ==
    CASE t.k = "str" -> t.s
      [] t.k = "num" -> DumpNat(t.n)
      [] OTHER -> <<"None">>

\* str(e) of the TypeError the call of a handler of the model raises.
HandlerFault ==
    <<"create_node() missing 2 required positional arguments: 'parent_path' and 'node_type'">>

\* handlers.get(cmd_type): the handler execute_command invokes for the
\* command, <<>> when it invokes none.
Invoked(command) ==
    LET t == GetKey(command, <<"type">>, JNone)
    IN  IF command.k = "obj" /\ t.k = "str" /\ Len(t.s) = 1 /\ t.s[1] \in Handlers
        THEN t.s ELSE <<>>

\* The message of the exception handler(**params) raises, <<>> when it
\* returns; raises tells whether params fails to fit.
\* str(e) of the TypeError of handler(**params) when params is no mapping.
MappingFault == <<"argument after ** must be a mapping">>

Fault(command, raises) ==
    IF Invoked(command) = <<>> THEN <<>>
    ELSE IF GetKey(command, <<"params">>, JObj(<<>>)).k # "obj" THEN MappingFault
    ELSE IF raises /\ MayRaise(Invoked(command)[1]) THEN HandlerFault
    ELSE <<>>

\* A faulty variant with no try around the handler: what the handler
\* raises leaves execute_command, and nothing is there to be sent.
ExecuteCommandFaultEscapes(command, raises) ==
    LET t == GetKey(command, <<"type">>, JNone)
    IN  CASE command.k # "obj" -> Error(<<"object has no attribute 'get'">>)
          [] Invoked(command) # <<>> ->
               IF Fault(command, raises) # <<>> THEN JNone
               ELSE Success(JObj(<<>>))
          [] OTHER -> Error(<<"Unknown command type: ">> \o t.s)

\* A faulty variant that answers a type the table does not have as if a
\* handler had run.
ExecuteCommandNoUnknown(command, raises) ==
    IF command.k # "obj" THEN Error(<<"object has no attribute 'get'">>)
    ELSE IF Fault(command, raises) # <<>> THEN Error(Fault(command, raises))
    ELSE Success(JObj(<<>>))

\* execute_command: the handler's result in a success envelope, what it
\* raised in an error envelope, an error envelope for a type the table
\* does not have, and for a command that is no dict (command.get raises)
\* or whose type is a list or a dict (handlers.get raises).
\* A faulty variant that answers a document that is no object with success.
ExecuteCommandLenient(command, raises) ==
    LET t == GetKey(command, <<"type">>, JNone)
    IN  CASE command.k # "obj" -> Success(JObj(<<>>))
          [] t.k \in {"arr", "obj"} -> Error(<<"unhashable type">>)
          [] Invoked(command) # <<>> ->
               IF Fault(command, raises) # <<>> THEN Error(Fault(command, raises))
               ELSE Success(JObj(<<>>))
          [] OTHER -> Error(<<"Unknown command type: ">> \o TypeStr(t))

ExecuteCommand(command, raises) ==
    LET t == GetKey(command, <<"type">>, JNone)
    IN  CASE command.k # "obj" -> Error(<<"object has no attribute 'get'">>)
          [] t.k \in {"arr", "obj"} -> Error(<<"unhashable type">>)
          [] Invoked(command) # <<>> ->
               IF Fault(command, raises) # <<>> THEN Error(Fault(command, raises))
               ELSE Success(JObj(<<>>))
          [] OTHER -> Error(<<"Unknown command type: ">> \o TypeStr(t))

\* The top of the loop with self.running true and no self.client: the
\* thread goes into accept(), which waits up to half a second.
LoopAcceptEnter(h, t) ==
    /\ host[h].up /\ t \in DOMAIN thr[h]
    /\ thr[h][t].pc = "loop" /\ host[h].running /\ host[h].client = 0
    /\ thr' = [thr EXCEPT ![h][t].pc = "accept"]
    /\ UNCHANGED <<codec, sys, files, born, host, scan, cli, conns>>

\* accept() returns the connection that has waited longest, which becomes
\* self.client; a socket self.client referred to before has no reference
\* left and is closed.
LoopAccept(h, t) ==
    /\ host[h].up /\ t \in DOMAIN thr[h]
    /\ thr[h][t].pc = "accept" /\ host[h].socket # 0 /\ Backlog(h) # {}
    /\ LET c == CHOOSE x \in Backlog(h) : \A y \in Backlog(h) : x <= y
           old == host[h].client
       IN  /\ host' = [host EXCEPT ![h].client = c]
           /\ conns' = [i \in DOMAIN conns |->
                          IF i = c THEN [conns[i] EXCEPT !.hend = "accepted"]
                          ELSE IF i = old THEN CloseHostEnd(conns[i])
                          ELSE conns[i]]
    /\ thr' = [thr EXCEPT ![h][t].pc = "serve"]
    /\ UNCHANGED <<codec, sys, files, born, scan, cli>>

\* accept() times out, or raises because the socket is closed or gone:
\* back to the top of the loop, where the thread goes into accept() again
\* unless self.running is false or there is a self.client by now.
LoopAcceptTimeout(h, t) ==
    /\ host[h].up /\ t \in DOMAIN thr[h]
    /\ thr[h][t].pc = "accept"
    /\ ~host[h].running \/ host[h].client # 0
    /\ thr' = [thr EXCEPT ![h][t].pc = "loop"]
    /\ UNCHANGED <<codec, sys, files, born, host, scan, cli, conns>>

\* The thread is about to serve self.client: right after accept, or at
\* the top of the loop with self.running true and a client held.
AtServe(h, t) ==
    \/ thr[h][t].pc = "serve"
    \/ thr[h][t].pc = "loop" /\ host[h].running /\ host[h].client # 0

\* self.client.recv(8192) returns data: it is added to the buffer; when
\* the buffer decodes, the command is about to be executed.
LoopRecv(h, t) ==
    /\ host[h].up /\ t \in DOMAIN thr[h] /\ AtServe(h, t)
    /\ host[h].client # 0
    /\ LET c == host[h].client
       IN  /\ conns[c].hend = "accepted" /\ conns[c].c2h # <<>>
           /\ \E n \in ReadSizes(conns[c].c2h) :
                \E f \in {HostFeed(host[h].buffer, SubSeq(conns[c].c2h, 1, n))} :
                    /\ host' = [host EXCEPT ![h].buffer = f.buffer]
                    /\ conns' = [conns EXCEPT ![c] =
                                    [@ EXCEPT !.c2h = SubSeq(@, n + 1, Len(@)),
                                              !.decoded = IF f.cmd # <<>>
                                                          THEN @ + 1 ELSE @]]
                    /\ thr' = [thr EXCEPT ![h][t] =
                                 IF f.cmd # <<>>
                                 THEN [pc |-> "exec", cmd |-> f.cmd[1], conn |-> c,
                                       req |-> conns[c].decoded + 1]
                                 ELSE NewThread]
    /\ UNCHANGED <<codec, sys, files, born, scan, cli>>

\* A faulty variant in which the fault of the connection ends the loop
\* thread.
LoopRecvClosedEndsLoop(h, t) ==
    /\ host[h].up /\ t \in DOMAIN thr[h] /\ AtServe(h, t)
    /\ host[h].client # 0
    /\ LET c == host[h].client
       IN  /\ \/ conns[c].cend = "closed" /\ conns[c].c2h = <<>>
              \/ conns[c].hend = "closed"
           /\ conns' = [conns EXCEPT ![c] = CloseHostEnd(@)]
    /\ host' = [host EXCEPT ![h].client = 0, ![h].buffer = <<>>]
    /\ thr' = [thr EXCEPT ![h] = [u \in DOMAIN @ \ {t} |-> @[u]]]
    /\ UNCHANGED <<codec, sys, files, born, scan, cli>>

\* recv returns nothing (the peer has closed) or raises (the connection
\* is reset, or the socket was closed by stop()): the client socket is
\* closed and forgotten, the buffer emptied.
LoopRecvClosed(h, t) ==
    /\ host[h].up /\ t \in DOMAIN thr[h] /\ AtServe(h, t)
    /\ host[h].client # 0
    /\ LET c == host[h].client
       IN  /\ \/ conns[c].cend = "closed" /\ conns[c].c2h = <<>>
              \/ conns[c].hend = "closed"
           /\ conns' = [conns EXCEPT ![c] = CloseHostEnd(@)]
    /\ host' = [host EXCEPT ![h].client = 0, ![h].buffer = <<>>]
    /\ thr' = [thr EXCEPT ![h][t].pc = "loop"]
    /\ UNCHANGED <<codec, sys, files, born, scan, cli>>

\* Right after accept, recv times out or self.client is gone: back to the
\* top of the loop.
\* A faulty variant that treats a poll that timed out as a failed read.
LoopRecvTimeoutDrops(h, t) ==
    /\ host[h].up /\ t \in DOMAIN thr[h]
    /\ AtServe(h, t) /\ host[h].client # 0
    /\ conns' = [conns EXCEPT ![host[h].client] = CloseHostEnd(@)]
    /\ host' = [host EXCEPT ![h].client = 0, ![h].buffer = <<>>]
    /\ thr' = [thr EXCEPT ![h][t].pc = "loop"]
    /\ UNCHANGED <<codec, sys, files, born, scan, cli>>

LoopRecvTimeout(h, t) ==
    /\ host[h].up /\ t \in DOMAIN thr[h]
    /\ AtServe(h, t) /\ host[h].client # 0
    /\ thr' = [thr EXCEPT ![h][t].pc = "loop"]
    /\ UNCHANGED <<codec, sys, files, born, host, scan, cli, conns>>

\* execute_command runs and the response is sent on self.client.  With no
\* self.client (stop() has run) sendall raises and the handlers of the
\* exception empty the buffer.  What is sent to a peer that has closed is
\* lost.
LoopExec(h, t) ==
    /\ host[h].up /\ t \in DOMAIN thr[h]
    /\ thr[h][t].pc = "exec"
    /\ \E raises \in BOOLEAN :
         LET response == ExecuteCommand(thr[h][t].cmd, raises)
             c == host[h].client
         IN  IF c = 0
             THEN /\ host' = [host EXCEPT ![h].buffer = <<>>]
                  /\ conns' = conns
             ELSE /\ host' = host
                  /\ conns' = [conns EXCEPT ![c] =
                        [@ EXCEPT !.h2c = IF conns[c].cend = "closed" \/ conns[c].hend = "closed"
                                          THEN @ ELSE @ \o JsonDumps(response),
                                  !.produced = @ + 1,
                                  !.answers = Append(@, <<thr[h][t].conn,
                                                          thr[h][t].req>>),
                                  !.resp = response,
                                  !.fault = Fault(thr[h][t].cmd, raises),
                                  !.invoked = Invoked(thr[h][t].cmd)]]
    /\ thr' = [thr EXCEPT ![h][t] = NewThread]
    /\ UNCHANGED <<codec, sys, files, born, scan, cli>>

\* The top of the loop with self.running false: the thread ends.
LoopExit(h, t) ==
    /\ host[h].up /\ t \in DOMAIN thr[h]
    /\ thr[h][t].pc = "loop" /\ ~host[h].running
    /\ thr' = [thr EXCEPT ![h] = [u \in DOMAIN @ \ {t} |-> @[u]]]
    /\ UNCHANGED <<codec, sys, files, born, host, scan, cli, conns>>

\* A faulty variant of stop() that leaves the port file where it is.
StopBeginKeepsFile(h) ==
    /\ host[h].up /\ host[h].mpc = "started" /\ host[h].stops < MaxStops
    /\ host' = [host EXCEPT ![h].port_file_path = <<>>, ![h].running = FALSE,
                            ![h].stops = @ + 1, ![h].mpc = "joining"]
    /\ UNCHANGED <<codec, sys, files, born, scan, cli, conns, thr>>

\* stop(): _remove_port_file, then self.running = False; the join comes
\* next when there is a thread.
StopBegin(h) ==
    /\ host[h].up /\ host[h].mpc = "started" /\ host[h].stops < MaxStops
    /\ files' = IF host[h].port_file_path # <<>>
                THEN RemoveFile(files, host[h].port_file_path) ELSE files
    /\ host' = [host EXCEPT ![h].port_file_path = <<>>, ![h].running = FALSE,
                            ![h].stops = @ + 1, ![h].mpc = "joining"]
    /\ UNCHANGED <<codec, sys, born, scan, cli, conns, thr>>

\* stop() after self.thread.join(timeout=1.0), which returns when the
\* thread has ended, or when the second is over and the thread is still
\* in a handler (accept and recv give up after half a second):
\* the listening socket and the client socket are closed, and both fields
\* and self.thread are None.  The buffer is left as it is.
StopFinish(h) ==
    /\ host[h].up /\ host[h].mpc = "joining"
    /\ IF host[h].thread \in DOMAIN thr[h]
       THEN thr[h][host[h].thread].pc = "exec"
       ELSE TRUE
    /\ conns' = [c \in DOMAIN conns |->
                   IF conns[c].host = h /\
                      (conns[c].hend = "backlog" \/ c = host[h].client)
                   THEN CloseHostEnd(conns[c]) ELSE conns[c]]
    /\ host' = [host EXCEPT ![h].thread = 0, ![h].socket = 0, ![h].bound = 0,
                            ![h].client = 0, ![h].mpc = "stopped"]
    /\ UNCHANGED <<codec, sys, files, born, scan, cli, thr>>

\* How many connections other processes make to a listener.
MaxPeers == 3

\* Another process connects to the listening socket of h.
PeerConnect(h) ==
    /\ Len(conns) < MaxPeers
    /\ h \in Listening(host[h].bound)
    /\ conns' = Append(conns, NewConn(h, host[h].bound))
    /\ UNCHANGED <<codec, sys, files, born, host, scan, cli, thr>>

\* It sends a Request Envelope, once.
PeerSend(c) ==
    /\ c \in DOMAIN conns
    /\ conns[c].cend = "open" /\ conns[c].hend # "closed" /\ conns[c].sent = 0
    /\ conns' = [conns EXCEPT ![c] =
          [@ EXCEPT !.c2h = JsonDumps(Request("create_node", JObj(<<>>))),
                    !.sent = 1]]
    /\ UNCHANGED <<codec, sys, files, born, host, scan, cli, thr>>

\* It closes its end.
PeerClose(c) ==
    /\ c \in DOMAIN conns
    /\ conns[c].cend = "open"
    /\ conns' = [conns EXCEPT ![c] = CloseClientEnd(@)]
    /\ UNCHANGED <<codec, sys, files, born, host, scan, cli, thr>>

(***************************************************************************)
(* Part 7.  The client's tool calls: get_houdini_connection, send_command, *)
(*          receive_full_response, connect_to_houdini                      *)
(***************************************************************************)

\* _houdini_connection's fallback port.
DEFAULT_PORT == 9877

\* The command types the tools of the model send, and the ports a user
\* asks connect_to_houdini for.
CallTypes == {"create_node", "noop_probe"}
PinPorts == {9877, 9900}

\* The messages of the exceptions a call ends with.
NotConnectedMsg == <<"Not connected to Houdini">>
CouldNotConnectMsg ==
    <<"Could not connect to Houdini. Make sure the Houdini addon is running.">>
TimeoutMsg ==
    <<"Timeout waiting for Houdini response - try simplifying your request">>
LostMsg == <<"Connection to Houdini lost: ", "Connection reset by peer">>
CommunicationMsg(inner) == <<"Communication error with Houdini: ">> \o inner

\* How send_command ends: it returns response.get("result", {}), or it
\* raises; cause is what happened.
Returned == [ok |-> TRUE, msg |-> <<>>, cause |-> "result"]
Raised(msg, cause) == [ok |-> FALSE, msg |-> msg, cause |-> cause]

\* The causes that are transport faults.
TransportCauses == {"timeout", "closed", "reset", "incomplete"}

\* A faulty variant that does not look at the registry.
ResolvePortNoRegistry(pinned, instances) ==
    IF pinned # 0 THEN pinned ELSE DEFAULT_PORT

\* get_houdini_connection, "Determine which port to connect to":
\* _target_port, else instances[0]['port'], else DEFAULT_PORT.
ResolvePort(pinned, instances) ==
    IF pinned # 0 THEN pinned
    ELSE IF instances # <<>> THEN PortOf(instances[1])
    ELSE DEFAULT_PORT

\* A faulty variant that goes on with the connection object it has when
\* the probe has failed.
AfterSendCommandReuses(cl, ret) ==
    IF cl.phase = "probe"
    THEN IF ret.ok
         THEN [cl EXCEPT !.pc = "send", !.phase = "command", !.chunks = <<>>,
                         !.probe = [result |-> "ok", conn |-> cl.sock]]
         ELSE [cl EXCEPT !.pc = "send", !.phase = "command", !.chunks = <<>>,
                         !.probe = [result |-> "failed", conn |-> cl.sock]]
    ELSE [Rest(cl) EXCEPT
            !.sock = IF ret.ok THEN @ ELSE 0,
            !.last = [how |-> IF ret.ok THEN "returned" ELSE "raised",
                      msg |-> ret.msg, cause |-> ret.cause, conn |-> cl.sock],
            !.prevfault = IF ret.cause \in TransportCauses THEN cl.port ELSE 0,
            !.confirmed = IF ret.ok /\ cl.op = "connect_to"
                          THEN @ \cup {cl.arg} ELSE @]

\* What follows send_command.  The reuse probe of get_houdini_connection:
\* when it returns, the connection is reused for the command of the call;
\* when it raises, disconnect() and _houdini_connection = None, and the
\* target is resolved.  The command of the call: the tool call ends.
\* Every raise of send_command but the first has set self.sock to None,
\* and the first is raised when self.sock is None.
AfterSendCommand(cl, ret) ==
    IF cl.phase = "probe"
    THEN IF ret.ok
         THEN [cl EXCEPT !.pc = "send", !.phase = "command", !.chunks = <<>>,
                         !.probe = [result |-> "ok", conn |-> cl.sock]]
         ELSE [cl EXCEPT !.pc = "resolve", !.phase = "command", !.chunks = <<>>,
                         !.connection = 0, !.port = 0, !.sock = 0,
                         !.probe = [result |-> "failed", conn |-> cl.sock]]
    ELSE [Rest(cl) EXCEPT
            !.sock = IF ret.ok THEN @ ELSE 0,
            !.last = [how |-> IF ret.ok THEN "returned" ELSE "raised",
                      msg |-> ret.msg, cause |-> ret.cause, conn |-> cl.sock],
            !.prevfault = IF ret.cause \in TransportCauses THEN cl.port ELSE 0,
            !.confirmed = IF ret.ok /\ cl.op = "connect_to"
                          THEN @ \cup {cl.arg} ELSE @]

\* A tool that sends a command is called: get_houdini_connection probes
\* the connection object it has, or resolves the target when it has none.
CallBegin ==
    /\ cli.pc = "idle" /\ cli.calls < MaxCalls
    /\ \E type \in CallTypes :
         cli' = [cli EXCEPT !.pc = IF cli.connection # 0 THEN "send" ELSE "resolve",
                            !.phase = IF cli.connection # 0 THEN "probe" ELSE "command",
                            !.op = "call", !.type = type, !.calls = @ + 1,
                            !.res = NoResolution, !.last = NoOutcome]
    /\ UNCHANGED <<codec, sys, files, born, host, scan, conns, thr>>

\* connect_to_houdini(port) is called: _discover_instances lists the
\* directory.
ConnectToBegin ==
    /\ cli.pc = "idle" /\ cli.calls < MaxCalls
    /\ \E port \in PinPorts :
         cli' = [cli EXCEPT !.pc = "validate", !.op = "connect_to", !.arg = port,
                            !.type = "get_scene_info", !.phase = "command",
                            !.calls = @ + 1, !.res = NoResolution,
                            !.last = NoOutcome]
    /\ scan' = [scan EXCEPT ![Client] = ListDir(Client)]
    /\ UNCHANGED <<codec, sys, files, born, host, conns, thr>>

\* A faulty variant that disconnects before it looks at the ports.
ConnectToValidatedTearsDown ==
    /\ cli.pc = "validate" /\ scan[Client].pc = "done"
    /\ LET known == {PortOf(scan[Client].instances[i]) :
                       i \in 1..Len(scan[Client].instances)}
       IN  /\ cli' = IF cli.arg \notin known
                     THEN [Rest(cli) EXCEPT
                             !.connection = 0, !.port = 0, !.sock = 0,
                             !.last = [how |-> "text",
                                       msg |-> <<"No Houdini instance found on port ">>,
                                       cause |-> "unknown_port", conn |-> 0],
                             !.prevfault = 0]
                     ELSE [cli EXCEPT !.pc = "resolve", !.connection = 0,
                                      !.port = 0, !.sock = 0,
                                      !.target_port = cli.arg]
           /\ conns' = IF cli.sock # 0
                       THEN [conns EXCEPT ![cli.sock] = CloseClientEnd(@)]
                       ELSE conns
    /\ scan' = [scan EXCEPT ![Client] = ScanIdle]
    /\ UNCHANGED <<codec, sys, files, born, host, thr>>

\* connect_to_houdini after the scan: a port no live instance has ends the
\* call with a text; else the connection is disconnected and dropped, the
\* port pinned, and get_houdini_connection resolves the target.
ConnectToValidated ==
    /\ cli.pc = "validate" /\ scan[Client].pc = "done"
    /\ LET known == {PortOf(scan[Client].instances[i]) :
                       i \in 1..Len(scan[Client].instances)}
       IN  IF cli.arg \notin known
           THEN /\ cli' = [Rest(cli) EXCEPT
                             !.last = [how |-> "text",
                                       msg |-> <<"No Houdini instance found on port ">>,
                                       cause |-> "unknown_port", conn |-> 0],
                             !.prevfault = 0]
                /\ conns' = conns
           ELSE /\ cli' = [cli EXCEPT !.pc = "resolve", !.connection = 0,
                                      !.port = 0, !.sock = 0,
                                      !.target_port = cli.arg]
                /\ conns' = IF cli.sock # 0
                            THEN [conns EXCEPT ![cli.sock] = CloseClientEnd(@)]
                            ELSE conns
    /\ scan' = [scan EXCEPT ![Client] = ScanIdle]
    /\ UNCHANGED <<codec, sys, files, born, host, thr>>

\* HoudiniConnection(host="localhost", port=port) and connect(): the
\* connection object is kept when the connect succeeds; when it fails
\* _houdini_connection is None again and the call raises.
\* A faulty variant that forgets the pinned port when nothing answers on it.
ConnectToUnpins(port, live) ==
    LET res == [done |-> TRUE, pinned |-> cli.target_port, live |-> live,
                port |-> port]
    IN  IF Listening(port) = {}
        THEN /\ cli' = [Rest(cli) EXCEPT
                          !.connection = 0, !.port = 0, !.sock = 0, !.res = res,
                          !.target_port = 0,
                          !.last = [how |-> "raised", msg |-> CouldNotConnectMsg,
                                    cause |-> "unreachable", conn |-> 0],
                          !.prevfault = 0]
             /\ conns' = conns
        ELSE /\ cli' = [cli EXCEPT !.connection = 1, !.port = port,
                                   !.sock = Len(conns) + 1, !.res = res,
                                   !.pc = "send", !.phase = "command"]
             /\ conns' = Append(conns,
                           NewConn(CHOOSE h \in Listening(port) : TRUE, port))

ConnectTo(port, live) ==
    LET res == [done |-> TRUE, pinned |-> cli.target_port, live |-> live,
                port |-> port]
    IN  IF Listening(port) = {}
        THEN /\ cli' = [Rest(cli) EXCEPT
                          !.connection = 0, !.port = 0, !.sock = 0, !.res = res,
                          !.last = [how |-> "raised", msg |-> CouldNotConnectMsg,
                                    cause |-> "unreachable", conn |-> 0],
                          !.prevfault = 0]
             /\ conns' = conns
        ELSE /\ cli' = [cli EXCEPT !.connection = 1, !.port = port,
                                   !.sock = Len(conns) + 1, !.res = res,
                                   !.pc = "send", !.phase = "command"]
             /\ conns' = Append(conns,
                           NewConn(CHOOSE h \in Listening(port) : TRUE, port))

\* get_houdini_connection with a pinned port: no scan.
ResolvePinned ==
    /\ cli.pc = "resolve" /\ cli.target_port # 0
    /\ ConnectTo(ResolvePort(cli.target_port, <<>>), <<>>)
    /\ UNCHANGED <<codec, sys, files, born, host, scan, thr>>

\* get_houdini_connection with no pinned port: _discover_instances lists
\* the directory.
ResolveBegin ==
    /\ cli.pc = "resolve" /\ cli.target_port = 0
    /\ cli' = [cli EXCEPT !.pc = "discover"]
    /\ scan' = [scan EXCEPT ![Client] = ListDir(Client)]
    /\ UNCHANGED <<codec, sys, files, born, host, conns, thr>>

\* get_houdini_connection after the scan: the port is chosen and
\* connected to.
ResolveConnect ==
    /\ cli.pc = "discover" /\ scan[Client].pc = "done"
    /\ ConnectTo(ResolvePort(cli.target_port, scan[Client].instances),
                 [i \in 1..Len(scan[Client].instances) |->
                    PortOf(scan[Client].instances[i])])
    /\ scan' = [scan EXCEPT ![Client] = ScanIdle]
    /\ UNCHANGED <<codec, sys, files, born, host, thr>>

\* send_command up to the wait for the response: connect() when
\* self.sock is None, to the port of the connection object, and a
\* ConnectionError when that fails; then sendall of the Request Envelope.
\* What is sent to a host that has closed is lost.
SendCommand ==
    /\ cli.pc = "send"
    /\ LET type == IF cli.phase = "probe" THEN "get_scene_info" ELSE cli.type
           bytes == JsonDumps(Request(type, JObj(<<>>)))
       IN  IF cli.sock = 0
           THEN IF Listening(cli.port) = {}
                THEN /\ cli' = AfterSendCommand(cli, Raised(NotConnectedMsg, "unreachable"))
                     /\ conns' = conns
                ELSE /\ cli' = [cli EXCEPT !.sock = Len(conns) + 1, !.pc = "recv",
                                           !.chunks = <<>>]
                     /\ conns' = Append(conns,
                          [NewConn(CHOOSE h \in Listening(cli.port) : TRUE, cli.port)
                             EXCEPT !.c2h = bytes, !.sent = 1])
           ELSE /\ cli' = [cli EXCEPT !.pc = "recv", !.chunks = <<>>]
                /\ conns' = [conns EXCEPT ![cli.sock] =
                      [@ EXCEPT !.c2h = IF conns[cli.sock].hend = "closed"
                                        THEN @ ELSE @ \o bytes,
                                !.sent = @ + 1]]
    /\ UNCHANGED <<codec, sys, files, born, host, scan, thr>>

\* self.sock = None: the socket is forgotten, not closed.  It stays open
\* until the interpreter finalizes the object, which closes it: at once
\* where objects are reference counted and nothing else refers to it,
\* at some later collection elsewhere.
ForgetClientEnd(c) == IF c.cend = "open" THEN [c EXCEPT !.cend = "forgotten"] ELSE c

\* What send_command leaves of the socket when it raises.
DropSock(ret) ==
    IF ret.ok THEN conns ELSE [conns EXCEPT ![cli.sock] = ForgetClientEnd(@)]

\* The interpreter finalizes a forgotten socket.
Finalize(c) ==
    /\ c \in DOMAIN conns /\ conns[c].cend = "forgotten"
    /\ conns' = [conns EXCEPT ![c] = CloseClientEnd(@)]
    /\ UNCHANGED <<codec, sys, files, born, host, scan, cli, thr>>

\* receive_full_response reads a chunk.  When the chunks decode,
\* send_command decodes them again: an envelope with status "error" is
\* raised as an exception with its message, which the last except clause
\* of send_command catches; else the result is returned.
ClientRecv ==
    /\ cli.pc = "recv" /\ conns[cli.sock].h2c # <<>>
    /\ \E n \in ReadSizes(conns[cli.sock].h2c) :
         \E f \in {ClientFeed(cli.chunks, SubSeq(conns[cli.sock].h2c, 1, n))} :
         LET c == cli.sock
             read == [conns EXCEPT ![c].h2c = SubSeq(@, n + 1, Len(@))]
         IN  IF f.ret = <<>>
             THEN /\ cli' = [cli EXCEPT !.chunks = f.chunks]
                  /\ conns' = read
             ELSE \E response \in {JsonLoads(f.ret[1]).val} :
                  LET ret == IF GetKey(response, <<"status">>, JNone) = JStr(<<"error">>)
                             THEN Raised(CommunicationMsg(
                                      GetKey(response, <<"message">>,
                                             JStr(<<"Unknown error from Houdini">>)).s),
                                         "envelope")
                             ELSE Returned
                  IN  /\ cli' = AfterSendCommand(cli, ret)
                      /\ conns' = [read EXCEPT ![c] =
                           IF ret.ok THEN [@ EXCEPT !.got = @ + 1]
                           ELSE ForgetClientEnd([@ EXCEPT !.got = @ + 1])]
    /\ UNCHANGED <<codec, sys, files, born, host, scan, thr>>

\* recv finds the connection closed by the host: with no chunk read,
\* "Connection closed before receiving any data", or a ConnectionResetError
\* when the host went with bytes unread; after some chunks,
\* "Incomplete JSON response received".
\* A faulty variant that reports every close by the host as one that came
\* before any data.
ClientRecvClosedAnyClose ==
    /\ cli.pc = "recv"
    /\ conns[cli.sock].h2c = <<>> /\ conns[cli.sock].hend = "closed"
    /\ \E reset \in BOOLEAN :
         LET ret == IF reset THEN Raised(LostMsg, "reset")
                    ELSE Raised(CommunicationMsg(
                            <<"Connection closed before receiving any data">>), "closed")
         IN  /\ cli' = AfterSendCommand(cli, ret)
             /\ conns' = DropSock(ret)
    /\ UNCHANGED <<codec, sys, files, born, host, scan, thr>>

ClientRecvClosed ==
    /\ cli.pc = "recv"
    /\ conns[cli.sock].h2c = <<>> /\ conns[cli.sock].hend = "closed"
    /\ \E reset \in BOOLEAN :
         LET ret == IF reset THEN Raised(LostMsg, "reset")
                    ELSE IF cli.chunks = <<>>
                    THEN Raised(CommunicationMsg(
                            <<"Connection closed before receiving any data">>), "closed")
                    ELSE Raised(CommunicationMsg(
                            <<"Incomplete JSON response received">>), "incomplete")
         IN  /\ cli' = AfterSendCommand(cli, ret)
             /\ conns' = DropSock(ret)
    /\ UNCHANGED <<codec, sys, files, born, host, scan, thr>>

\* recv times out after 15 seconds: receive_full_response leaves its loop
\* and raises "No data received", or "Incomplete JSON response received"
\* after some chunks.
ClientRecvTimeout ==
    /\ cli.pc = "recv"
    /\ conns[cli.sock].h2c = <<>> /\ conns[cli.sock].hend # "closed"
    /\ LET ret == Raised(CommunicationMsg(IF cli.chunks = <<>>
                                          THEN <<"No data received">>
                                          ELSE <<"Incomplete JSON response received">>),
                         "timeout")
       IN  /\ cli' = AfterSendCommand(cli, ret)
           /\ conns' = DropSock(ret)
    /\ UNCHANGED <<codec, sys, files, born, host, scan, thr>>

vars == <<codec, sys, files, born, host, scan, cli, conns, thr>>

MachineInit ==
    /\ sys = [alive |-> {}, clock |-> 1, launches |-> 0, taken |-> {}]
    /\ files = <<>>
    /\ born = {}
    /\ host = [h \in Hosts |-> HostOff]
    /\ scan = [s \in Scanners |-> ScanIdle]
    /\ conns = <<>>
    /\ thr = [h \in Hosts |-> <<>>]

(***************************************************************************)
(* The codec specification: one document read by its receiver              *)
(***************************************************************************)

CodecIdle == codec = [side |-> "none"]

\* One document on the wire, not yet read by its receiver.
CodecInit ==
    /\ MachineInit /\ cli = ClientInit
    /\ \E side \in {"host", "client"} :
       \E m \in {SampleValues[i] : i \in DOMAIN SampleValues}
                \cup (IF side = "host"
                      THEN {SampleRequests[i] : i \in DOMAIN SampleRequests}
                      ELSE {SampleResponses[i] : i \in DOMAIN SampleResponses}) :
             codec = [side |-> side, msg |-> m, wire |-> JsonDumps(m),
                      buffer |-> <<>>, chunks |-> <<>>, out |-> <<>>, reads |-> 0]

\* The host reads the next n bytes of the request.
CodecHostRecv ==
    /\ codec.side = "host" /\ codec.wire # <<>>
    /\ \E n \in 1..Min(Len(codec.wire), RecvBufferSize) :
         LET f == HostFeed(codec.buffer, SubSeq(codec.wire, 1, n))
         IN  codec' = [codec EXCEPT !.wire = SubSeq(@, n + 1, Len(@)),
                                    !.buffer = f.buffer,
                                    !.out = @ \o f.cmd,
                                    !.reads = @ + 1]
    /\ UNCHANGED <<sys, files, born, host, scan, cli, conns, thr>>

\* The client reads the next n bytes of the response; send_command decodes
\* what receive_full_response returns.
CodecClientRecv ==
    /\ codec.side = "client" /\ codec.wire # <<>>
    /\ \E n \in 1..Min(Len(codec.wire), RecvBufferSize) :
         /\ codec.reads + 1 >= MaxReads => n = Len(codec.wire)
         /\ LET f == ClientFeed(codec.chunks, SubSeq(codec.wire, 1, n))
            IN  codec' = [codec EXCEPT !.wire = SubSeq(@, n + 1, Len(@)),
                                       !.chunks = f.chunks,
                                       !.out = @ \o (IF f.ret = <<>> THEN <<>>
                                                     ELSE <<JsonLoads(f.ret[1]).val>>),
                                       !.reads = @ + 1]
    /\ UNCHANGED <<sys, files, born, host, scan, cli, conns, thr>>

CodecNext == CodecHostRecv \/ CodecClientRecv
SpecCodec == CodecInit /\ [][CodecNext]_vars

\* What C2 asks of a document: the receiver has decoded nothing while
\* bytes of the document are still to come, and once the last byte is read
\* it has decoded exactly the document sent and its accumulator is empty.
RoundTrip ==
    /\ codec.wire # <<>> => codec.out = <<>>
    /\ codec.wire = <<>> =>
         /\ codec.out = <<codec.msg>>
         /\ codec.buffer = <<>> /\ codec.chunks = <<>>

\* C2 as stated: every JSON-serializable document makes the round trip,
\* whatever the split into reads.
C2_RoundTripAnyValue == codec.side # "none" => RoundTrip

\* C2, amended: every document that is an object, an array or a string
\* (every Request and Response Envelope is an object) makes the round
\* trip, whatever the split into reads.
C2_FramingRoundTrip == codec.msg.k # "num" => RoundTrip
\* A request read by the host in at least three partial reads.
C2_Witness ==
    /\ codec.side = "host" /\ codec.wire = <<>> /\ codec.reads >= 3
    /\ codec.msg.k = "obj"
    /\ codec.out = <<codec.msg>> /\ codec.buffer = <<>>

(***************************************************************************)
(* The registry specification: hosts start and crash, the client lists     *)
(***************************************************************************)

RegistryInit == MachineInit /\ CodecIdle /\ cli = ClientInit

RegistryNext ==
    \/ \E h \in Hosts :
         \/ Launch(h) \/ StartBegin(h) \/ StartBind(h)
         \/ WriteOpenTmp(h) \/ WriteDumpPartial(h) \/ WriteDump(h)
         \/ WriteReplace(h) \/ StartThread(h) \/ Crash(h)
    \/ \E s \in Scanners : ScanFile(s) \/ ScanRemove(s)
    \/ ListBegin \/ ListReturn

SpecRegistry == RegistryInit /\ [][RegistryNext]_vars

\* The documents of the descriptors published so far, and the instant a
\* descriptor was built at.
Published == {JsonDumpIndent(b.info) : b \in {x \in born : x.published}}
Tick(info) == (CHOOSE b \in born : b.info = info).tick

\* C7: when the client's scan of the registry is over, no descriptor whose
\* pid the scan found dead is among the instances it returns, and the file
\* of every such descriptor is gone from the registry.
C7_StaleNeverReturned ==
    scan[Client].pc = "done" =>
        \A d \in scan[Client].dead :
            /\ \A i \in 1..Len(scan[Client].instances) :
                   scan[Client].instances[i] # d.info
            /\ ~(d.name \in DOMAIN files /\ files[d.name] = JsonDumpIndent(d.info))
\* A scan that found only a dead descriptor: nothing returned, registry empty.
C7_Witness ==
    /\ scan[Client].pc = "done"
    /\ scan[Client].dead # {}
    /\ scan[Client].instances = <<>>
    /\ \A name \in DOMAIN files : ~IsPortFileName(name)

\* C8: the instances the client's scan returns are ordered by the instant
\* their descriptors were built at, the latest first.
C8_NewestFirst ==
    scan[Client].pc = "done" =>
        \A i, j \in 1..Len(scan[Client].instances) :
            i < j => Tick(scan[Client].instances[i]) > Tick(scan[Client].instances[j])
\* Two live instances returned, the one listed first in the directory
\* being the older.
C8_Witness ==
    /\ scan[Client].pc = "done"
    /\ Len(scan[Client].instances) = 2
    /\ PortOf(scan[Client].instances[1]) > PortOf(scan[Client].instances[2])

\* C9: a scan never reads anything but the whole document of a published
\* descriptor from a port file, no port file ever holds anything else, and
\* the file a scan treats as a descriptor is never a temporary file.
C9_PublishAtomic ==
    /\ \A s \in Scanners :
         /\ scan[s].raw # <<>> => scan[s].raw \in Published
         /\ scan[s].name # <<>> =>
              /\ IsPortFileName(scan[s].name)
              /\ \A h \in Hosts : scan[s].name # TmpFile(host[h].port)
    /\ \A name \in DOMAIN files : IsPortFileName(name) => files[name] \in Published
\* A scan has read the descriptor of a port while a host is half way
\* through writing the temporary file of the same port.
C9_Witness ==
    \E s \in Scanners, h \in Hosts :
        /\ scan[s].pc = "files" /\ scan[s].raw # <<>>
        /\ host[h].up /\ host[h].mpc = "tmp_open"
        /\ files[TmpFile(host[h].port)] # <<>>
        /\ scan[s].name = PortFile(host[h].port)

(***************************************************************************)
(* The specification: hosts come and go, the client serves tool calls      *)
(***************************************************************************)

\* A host whose server has started: HoudiniMCPServer(port) in the process
\* pid, start() at the instant tick, bound to the port bound.
Started(pid, port, bound, tick) ==
    [HostOff EXCEPT !.up = TRUE, !.pid = pid, !.asked = port,
                    !.port = bound, !.running = TRUE,
                    !.socket = 1, !.bound = bound, !.thread = 1,
                    !.port_file_path = PortFile(bound),
                    !.info = Info(bound, pid, IsoFormat(tick)),
                    !.mpc = "started", !.threads = 1]

\* The machine when the client is constructed: host 1 has started, with an
\* explicit port or on the first port of the range, and host 2 may have
\* started after it on the first port of the range that was free.
Running(first, both) ==
    LET second == IF first = DEFAULT_PORT_RANGE[1]
                  THEN DEFAULT_PORT_RANGE[1] + 1 ELSE DEFAULT_PORT_RANGE[1]
        h1 == Started(1, IF first \in ExplicitPorts THEN first ELSE 0, first, 2)
        h2 == IF both THEN Started(2, 0, second, 3) ELSE HostOff
    IN  [host |-> [h \in Hosts |-> IF h = 1 THEN h1 ELSE h2],
         files |-> [n \in {PortFile(first)} \cup (IF both THEN {PortFile(second)} ELSE {})
                      |-> IF n = PortFile(first) THEN JsonDumpIndent(h1.info)
                          ELSE JsonDumpIndent(h2.info)],
         born |-> {[info |-> h.info, tick |-> IF h = h1 THEN 2 ELSE 3, published |-> TRUE] :
                     h \in {h1} \cup (IF both THEN {h2} ELSE {})},
         sys |-> [alive |-> IF both THEN {1, 2} ELSE {1},
                  clock |-> IF both THEN 3 ELSE 2,
                  launches |-> IF both THEN 2 ELSE 1, taken |-> {}],
         thr |-> [h \in Hosts |-> IF h = 1 \/ both THEN <<NewThread>> ELSE <<>>]]
RunningHosts(first, both) ==
    LET r == Running(first, both)
    IN  /\ host = r.host /\ files = r.files /\ born = r.born
        /\ sys = r.sys /\ thr = r.thr

Init ==
    /\ CodecIdle /\ cli = ClientInit
    /\ scan = [s \in Scanners |-> ScanIdle]
    /\ conns = <<>>
    /\ \E first \in {DEFAULT_PORT_RANGE[1]} \cup ExplicitPorts, both \in BOOLEAN :
         RunningHosts(first, both)

Next ==
    \/ \E h \in Hosts :
         \/ Crash(h)
         \/ \E t \in 1..MaxThreads :
              \/ LoopAcceptEnter(h, t) \/ LoopAccept(h, t)
              \/ LoopRecv(h, t) \/ LoopRecvClosed(h, t) \/ LoopRecvTimeout(h, t)
              \/ LoopExec(h, t)
    \/ ScanFile(Client) \/ ScanRemove(Client)
    \/ CallBegin \/ ConnectToBegin \/ ConnectToValidated
    \/ ResolvePinned \/ ResolveBegin \/ ResolveConnect
    \/ SendCommand \/ ClientRecv \/ ClientRecvClosed \/ ClientRecvTimeout
    \/ \E c \in DOMAIN conns : Finalize(c)

Spec == Init /\ [][Next]_vars

\* The status of a Response Envelope.
StatusOf(response) == GetKey(response, <<"status">>, JNone)

\* C1: on every connection the host has written at most as many responses
\* as requests were sent and the client has decoded at most as many as
\* were written; a request is sent only when every one before it has its
\* response; every response written has status "success" or "error"; a
\* healthy connection the host has nothing left to do on has one response
\* written per request; while the client waits, what it has read and what
\* is in flight make up exactly the one response written; and when
\* send_command has a response, the connection has as many responses
\* decoded as requests sent.
C1_ExactlyOneResponse ==
    /\ \A c \in DOMAIN conns :
         /\ conns[c].got <= conns[c].produced
         /\ conns[c].produced <= conns[c].sent
         /\ conns[c].sent <= conns[c].got + 1
         /\ conns[c].resp # JNone =>
              StatusOf(conns[c].resp) \in {JStr(<<"success">>), JStr(<<"error">>)}
         /\ ( /\ conns[c].cend = "open" /\ conns[c].hend = "accepted"
              /\ conns[c].c2h = <<>>
              /\ host[conns[c].host].client = c
              /\ \A t \in DOMAIN thr[conns[c].host] :
                     thr[conns[c].host][t].pc # "exec" )
            => conns[c].produced = conns[c].sent
    /\ cli.sock # 0 =>
         /\ cli.pc # "recv" => conns[cli.sock].got = conns[cli.sock].sent
         /\ cli.pc = "recv" =>
              /\ conns[cli.sock].got + 1 = conns[cli.sock].sent
              /\ (cli.chunks # <<>> \/ conns[cli.sock].h2c # <<>>) =>
                    Join(cli.chunks) \o conns[cli.sock].h2c
                      = JsonDumps(conns[cli.sock].resp)
    /\ (cli.last.cause \in {"result", "envelope"} /\ cli.last.conn # 0) =>
         conns[cli.last.conn].got = conns[cli.last.conn].sent

\* C3: when a call has ended with an error envelope, the client still
\* holds the connection the call was made on.
C3_ErrorKeepsConnection ==
    (cli.pc = "idle" /\ cli.last.cause = "envelope") =>
        (cli.sock # 0 /\ cli.sock = cli.last.conn)

\* C4: when the call before failed with a transport fault, the command of
\* this call is sent on a connection that the target resolution of this
\* call has chosen.
C4_FreshResolution ==
    (cli.op = "call" /\ cli.prevfault # 0 /\ cli.phase = "command"
       /\ cli.pc \in {"send", "recv"})
    => cli.res.done

\* The kind of failure a caller can tell from the message of the exception.
Kind(msg) ==
    CASE msg = CouldNotConnectMsg \/ msg = NotConnectedMsg -> "unreachable"
      [] msg = TimeoutMsg -> "timeout"
      [] Head(msg) = Head(LostMsg) -> "transport"
      [] OTHER -> "communication"

\* C5: a call that ended because no response came in time raises the
\* timeout kind, and a call that ended with an error envelope raises a
\* kind no transport failure is raised as.
C5_FailureKinds ==
    cli.last.how = "raised" =>
        /\ cli.last.cause = "unreachable" => Kind(cli.last.msg) = "unreachable"
        /\ cli.last.cause = "timeout" => Kind(cli.last.msg) = "timeout"
        /\ cli.last.cause = "envelope" =>
             Kind(cli.last.msg) \notin
               {Kind(CommunicationMsg(<<"No data received">>)), Kind(LostMsg)}

\* C6: the port get_houdini_connection connects to when it has no
\* connection is the pinned port when there is one, else the port of the
\* first instance the scan returned when it returned any, else 9877; and
\* the connection the client then holds is one to that port.
C6_TargetResolution ==
    cli.res.done =>
        /\ cli.res.port = IF cli.res.pinned # 0 THEN cli.res.pinned
                          ELSE IF cli.res.live # <<>> THEN cli.res.live[1]
                          ELSE DEFAULT_PORT
        /\ cli.sock # 0 => conns[cli.sock].port = cli.res.port /\ cli.port = cli.res.port
\* One host published on port 9900, nothing pinned: the client connects
\* to 9900.
C6_Witness ==
    /\ cli.res.done /\ cli.res.pinned = 0
    /\ cli.res.live = <<9900>> /\ cli.res.port = 9900
    /\ DOMAIN files = {PortFile(9900)}
    /\ cli.sock # 0 /\ conns[cli.sock].port = 9900

C12_UnknownCommand ==
    ( /\ cli.pc = "recv" /\ cli.phase = "command" /\ cli.type \notin Handlers
      /\ conns[cli.sock].produced = conns[cli.sock].sent )
    => /\ conns[cli.sock].resp = Error(<<"Unknown command type: ", cli.type>>)
       /\ conns[cli.sock].invoked = <<>>
\* The response to a noop_probe request is written and the client has
\* not read it yet.
C12_Witness ==
    /\ cli.pc = "recv" /\ cli.phase = "command" /\ cli.type = "noop_probe"
    /\ conns[cli.sock].produced = conns[cli.sock].sent
    /\ conns[cli.sock].h2c = JsonDumps(Error(<<"Unknown command type: ", "noop_probe">>))

(***************************************************************************)
(* The start specification: hosts start, stop and start again on a machine *)
(* where other programs hold some ports                                    *)
(***************************************************************************)

PortRange == DEFAULT_PORT_RANGE[1]..DEFAULT_PORT_RANGE[2]

\* The ports other programs hold: none, the first of the range, or all of
\* the range.
TakenSamples == {{}, {DEFAULT_PORT_RANGE[1]}, PortRange}

StartInit ==
    /\ CodecIdle /\ cli = ClientInit
    /\ \E taken \in TakenSamples :
         sys = [alive |-> {}, clock |-> 1, launches |-> 0, taken |-> taken]
    /\ files = <<>> /\ born = {}
    /\ host = [h \in Hosts |-> HostOff]
    /\ scan = [s \in Scanners |-> ScanIdle]
    /\ conns = <<>>
    /\ thr = [h \in Hosts |-> <<>>]

StartNext ==
    \E h \in Hosts :
       \/ Launch(h) \/ StartBegin(h) \/ ScanFile(h) \/ ScanRemove(h) \/ StartBind(h)
       \/ WriteOpenTmp(h) \/ WriteDumpPartial(h) \/ WriteDump(h) \/ WriteReplace(h)
       \/ StartThread(h) \/ StopBegin(h) \/ StopFinish(h) \/ Crash(h)
       \/ \E t \in 1..MaxThreads : LoopExit(h, t)

SpecStart == StartInit /\ [][StartNext]_vars

\* C13: on a machine where every port of the range is held, a host whose
\* server was given no port is never past a failed start(): it has no
\* port file, and the registry never holds a descriptor, whole or being
\* written, for a port of the range.
C13_NoBindNoPublish ==
    PortRange \subseteq sys.taken =>
        /\ \A h \in Hosts :
              (host[h].up /\ host[h].asked = 0) =>
                  /\ host[h].mpc \in {"new", "clean", "failed"}
                  /\ host[h].port_file_path = <<>>
                  /\ host[h].bound = 0
        /\ \A p \in PortRange : PortFile(p) \notin DOMAIN files
                                 /\ TmpFile(p) \notin DOMAIN files
        /\ \A b \in born : PortOf(b.info) \notin PortRange
\* Every port of the range is held and start() of a server with no port
\* has returned False.
C13_Witness ==
    /\ PortRange \subseteq sys.taken
    /\ \E h \in Hosts : host[h].up /\ host[h].asked = 0 /\ host[h].mpc = "failed"

\* C14: when start() binds or fails to, a server that was given a port has
\* tried that port alone, and a server that was given none has bound the
\* lowest port of the range that was free.
C14_PortSelection ==
    [][\A h \in Hosts :
         (host[h].up /\ host[h].mpc = "clean" /\ host'[h].mpc \in {"bound", "failed"}) =>
            IF host[h].asked # 0
            THEN IF PortFree(host[h].asked)
                 THEN host'[h].bound = host[h].asked
                 ELSE host'[h].mpc = "failed"
            ELSE IF \E p \in PortRange : PortFree(p)
                 THEN /\ host'[h].bound \in PortRange
                      /\ PortFree(host'[h].bound)
                      /\ \A q \in PortRange : q < host'[h].bound => ~PortFree(q)
                 ELSE host'[h].mpc = "failed"]_vars

(***************************************************************************)
(* The listener specification: one server object started and stopped,      *)
(* other processes connecting to it                                        *)
(***************************************************************************)

\* Host 1 is launched and its server constructed with no explicit port.
ListenerInit ==
    /\ CodecIdle /\ cli = ClientInit
    /\ sys = [alive |-> {1}, clock |-> 1, launches |-> 1, taken |-> {}]
    /\ files = <<>> /\ born = {}
    /\ host = [h \in Hosts |-> IF h = 1
                               THEN [HostOff EXCEPT !.up = TRUE, !.pid = 1, !.mpc = "new"]
                               ELSE HostOff]
    /\ scan = [s \in Scanners |-> ScanIdle]
    /\ conns = <<>>
    /\ thr = [h \in Hosts |-> <<>>]

ListenerNext ==
    \/ \E h \in Hosts :
         \/ StartBegin(h) \/ StartBind(h)
         \/ WriteOpenTmp(h) \/ WriteDumpPartial(h) \/ WriteDump(h) \/ WriteReplace(h)
         \/ StartThread(h) \/ StopBegin(h) \/ StopFinish(h)
         \/ PeerConnect(h)
         \/ \E t \in 1..MaxThreads :
              \/ LoopAcceptEnter(h, t) \/ LoopAccept(h, t) \/ LoopAcceptTimeout(h, t)
              \/ LoopRecv(h, t) \/ LoopRecvClosed(h, t) \/ LoopRecvTimeout(h, t)
              \/ LoopExec(h, t) \/ LoopExit(h, t)
    \/ \E c \in 1..MaxPeers : PeerSend(c) \/ PeerClose(c)

SpecListener == ListenerInit /\ [][ListenerNext]_vars

\* C10: a connection is accepted only while the server holds none.
C10_AcceptOnlyWhenFree ==
    [][\A c \in DOMAIN conns :
         (conns[c].hend = "backlog" /\ conns'[c].hend = "accepted")
           => host[conns[c].host].client = 0]_vars

\* The registry holds the descriptor host h has published.
Advertised(h) ==
    /\ host[h].info # JNone
    /\ PortFile(host[h].port) \in DOMAIN files
    /\ files[PortFile(host[h].port)] = JsonDumpIndent(host[h].info)

\* C15: when start() has returned True the listening socket is bound, the
\* descriptor of the host is in the registry and the loop thread it
\* started is alive; and whenever the descriptor of a running host is in
\* the registry, the listening socket of the host is bound to the port
\* the descriptor gives.
C15_StartPublishesAfterBind ==
    \A h \in Hosts :
        host[h].up =>
            /\ host[h].mpc = "started" =>
                  /\ host[h].socket # 0 /\ host[h].bound # 0
                  /\ Advertised(h)
                  /\ host[h].thread \in DOMAIN thr[h]
            /\ Advertised(h) =>
                  /\ host[h].socket # 0
                  /\ host[h].bound = PortOf(host[h].info)
\* start() has returned True and the loop thread it started is waiting in
\* accept().
C15_Witness ==
    \E h \in Hosts :
        /\ host[h].up /\ host[h].mpc = "started" /\ Advertised(h)
        /\ host[h].thread \in DOMAIN thr[h]
        /\ thr[h][host[h].thread].pc = "accept"

\* C16: when stop() has returned, the descriptor of the host is not in the
\* registry, the host holds no connection and none to it is open at its
\* end, no loop thread of the server is alive, and the listening socket
\* is closed and its port free.
C16_StopReleasesAll ==
    \A h \in Hosts :
        (host[h].up /\ host[h].mpc = "stopped") =>
            /\ ~Advertised(h) /\ host[h].port_file_path = <<>>
            /\ host[h].client = 0
            /\ \A c \in DOMAIN conns : conns[c].host = h => conns[c].hend = "closed"
            /\ host[h].socket = 0 /\ host[h].bound = 0
            /\ DOMAIN thr[h] = {}

\* C17: no step of connect_to_houdini up to and including the report that
\* no live instance has the port changes the connection object, its
\* socket, the client's end of the connection or the pinned port.
C17_UnknownPortChangesNothing ==
    [][( \/ cli'.op = "connect_to" /\ cli'.pc = "validate"
         \/ cli.pc = "validate" /\ cli'.last.cause = "unknown_port" )
       => /\ cli'.connection = cli.connection /\ cli'.port = cli.port
          /\ cli'.sock = cli.sock /\ cli'.target_port = cli.target_port
          /\ cli.sock # 0 => conns'[cli.sock].cend = conns[cli.sock].cend]_vars
\* connect_to_houdini has reported that no live instance has the port,
\* while a port is pinned and a connection held.
C17_Witness ==
    /\ cli.pc = "idle" /\ cli.last.cause = "unknown_port"
    /\ cli.target_port # 0 /\ cli.sock # 0
    /\ conns[cli.sock].cend = "open"

\* C18: outside a running connect_to_houdini, a pinned port is one that
\* connect_to_houdini has reported a connection to.
C18_PinnedWasConfirmed ==
    (cli.op # "connect_to" /\ cli.target_port # 0) =>
        cli.target_port \in cli.confirmed

ClientOpen == {c \in DOMAIN conns : conns[c].cend # "closed"}

\* C20: at every moment at most one stream opened by the client is open at
\* the client's end, so that a stream opened after a failure finds the
\* previous one closed.
C20_OneOutboundConnection == Cardinality(ClientOpen) <= 1

\* C21: once a tool call has ended because no response came in time, the
\* stream the call used is closed at the client's end, and the client never
\* reads from a stream it has let go of.
C21_TimeoutClosesStream ==
    /\ [](  (cli.pc = "idle" /\ cli.last.cause = "timeout")
         => conns[cli.last.conn].cend = "closed")
    /\ [][ClientRecv => conns[cli.sock].cend = "open"]_vars

\* The ports of a listing.
Ports(listed) == {listed[i] : i \in 1..Len(listed)}

\* C22: when a listing returns and the hosts are what they were when the
\* listing before it began (no host has started, stopped or exited since),
\* it returns the set of ports the listing before it returned, and it has
\* found no descriptor to delete.
C22_ListIdempotent ==
    [][ (  cli.pc = "list" /\ cli'.pc = "idle"
        /\ Len(cli.began) = 2 /\ cli.began[1] = Epoch)
        => /\ Ports(cli'.listed) = Ports(cli.listed)
           /\ scan[Client].dead = {} ]_vars
\* The second of two listings has returned a live instance, the hosts
\* being what they were when the first began, and a descriptor left by a
\* process that has exited is gone from the registry.
C22_Witness ==
    /\ cli.pc = "idle" /\ Len(cli.began) = 2 /\ cli.began[1] = Epoch
    /\ cli.listed # <<>>
    /\ \E b \in born : b.published /\ ~IsPidAlive(PidOf(b.info))
                       /\ PortFile(PortOf(b.info)) \notin DOMAIN files

(***************************************************************************)
(* The scanning specification: the client lists a registry that holds,     *)
(* besides the descriptors of the running hosts, a descriptor another      *)
(* program writes in place                                                 *)
(***************************************************************************)

\* The port and the file of the descriptor of the other program.
ForeignPort == DEFAULT_PORT_RANGE[1] + 2
ForeignFile == PortFile(ForeignPort)

\* The descriptors the other program may write: with the pid of a running
\* process that is no host (3), of a process that has exited and been
\* reaped (4), with pid 0, with a pid that is a string, and with no pid.
ForeignInfo(pid) ==
    JObj(<< Member(<<"port">>, JNum(ForeignPort)) >> \o pid
         \o << Member(<<"started_at">>, JStr(IsoFormat(1))) >>)
ForeignDocs ==
    {ForeignInfo(<<Member(<<"pid">>, v)>>) : v \in {JNum(3), JNum(4), JNum(0), JStr(<<"3">>)}}
    \cup {ForeignInfo(<<>>)}

\* What a file holds when the first bytes of a document have reached it.
FirstHalf(bytes) == SubSeq(bytes, 1, Len(bytes) \div 2)

\* The hosts have started, process 3 runs, and the other program has
\* written the first bytes of its descriptor or all of it.
ScanInit ==
    /\ CodecIdle /\ cli = ClientInit
    /\ scan = [s \in Scanners |-> ScanIdle]
    /\ conns = <<>>
    /\ \E first \in {DEFAULT_PORT_RANGE[1]} \cup ExplicitPorts, both \in BOOLEAN :
       \E d \in ForeignDocs, whole \in BOOLEAN :
         LET r == Running(first, both)
             bytes == JsonDumpIndent(d)
         IN  /\ host = r.host /\ born = r.born /\ thr = r.thr
             /\ sys = [r.sys EXCEPT !.alive = @ \cup {3}]
             /\ files = WriteFile(r.files, ForeignFile,
                                  IF whole THEN bytes ELSE FirstHalf(bytes))

\* The other program writes the rest of its descriptor.
ForeignWrite ==
    /\ ForeignFile \in DOMAIN files
    /\ \E d \in ForeignDocs :
         /\ files[ForeignFile] = FirstHalf(JsonDumpIndent(d))
         /\ files' = WriteFile(files, ForeignFile, JsonDumpIndent(d))
    /\ UNCHANGED <<codec, sys, born, host, scan, cli, conns, thr>>

ScanNext ==
    \/ ForeignWrite
    \/ \E h \in Hosts : Crash(h)
    \/ ScanFile(Client) \/ ScanRemove(Client)
    \/ ListBegin \/ ListReturn

SpecScan == ScanInit /\ [][ScanNext]_vars

\* The items of a list.
Items(seq) == {seq[i] : i \in 1..Len(seq)}

\* C23: when the client's scan reads a file that does not parse, it adds
\* nothing to what it returns, removes nothing and leaves the file where it
\* is; when it reads a file that holds a whole descriptor whose pid is that
\* of a running process, or is missing or 0, the descriptor is among what
\* it returns; and a scan that is over has the descriptor of every host
\* that runs among what it returns.
C23_UnparsedSkipped ==
    /\ [][ \A n \in scan[Client].todo :
             (  scan'[Client].todo = scan[Client].todo \ {n}
             /\ n \in DOMAIN files /\ IsPortFileName(n))
             => LET r == JsonLoads(files[n])
                IN  IF ~r.ok
                    THEN /\ Items(scan'[Client].instances) = Items(scan[Client].instances)
                         /\ scan'[Client].pc # "remove"
                         /\ files' = files
                    ELSE (r.val.k = "obj" /\ Probe(r.val) \in {"none", "true"})
                         => r.val \in Items(scan'[Client].instances) ]_vars
    /\ [](scan[Client].pc = "done" =>
            \A h \in Hosts :
               (host[h].up /\ files[PortFile(host[h].port)] = JsonDumpIndent(host[h].info))
               => host[h].info \in Items(scan[Client].instances))
\* The second listing is over and returns the descriptor of the other
\* program, which the first listing, reading half of it, did not return.
C23_Witness ==
    /\ cli.scans = 2 /\ cli.pc = "list" /\ scan[Client].pc = "done"
    /\ \E i \in 1..Len(scan[Client].instances) :
          PortOf(scan[Client].instances[i]) = ForeignPort
    /\ ForeignPort \notin Ports(cli.listed)
    /\ cli.listed # <<>>

\* C24: a loop thread of a running server ends only when self.running is
\* false; and when a loop thread gives up the connection it serves (the
\* peer has closed it, or recv has raised), the host's end of the
\* connection is closed, the buffer is empty, self.running is what it was
\* and every loop thread is still there, one of them at the top of the
\* loop.
C24_FaultKeepsLoop ==
    [][ \A h \in Hosts :
          /\ \A t \in DOMAIN thr[h] :
                (host'[h].up /\ t \notin DOMAIN thr'[h]) => ~host[h].running
          /\ (  host[h].up /\ host'[h].up /\ host'[h].mpc = host[h].mpc
             /\ host[h].client # 0 /\ host'[h].client = 0)
             => /\ conns'[host[h].client].hend = "closed"
                /\ host'[h].buffer = <<>>
                /\ host'[h].running = host[h].running
                /\ DOMAIN thr'[h] = DOMAIN thr[h]
                /\ \E t \in DOMAIN thr'[h] : thr'[h][t].pc = "loop" ]_vars
\* A server that was never stopped serves a connection it accepted after
\* it had given up one its peer had closed.
C24_Witness ==
    \E h \in Hosts :
        /\ host[h].up /\ host[h].running /\ host[h].stops = 0
        /\ host[h].client # 0 /\ conns[host[h].client].hend = "accepted"
        /\ \E c \in DOMAIN conns : c < host[h].client /\ conns[c] = OverConn

\* C25: the probe of the pid of a descriptor never raises: it gives true or
\* false, and false for a pid that is no positive integer or is the pid of
\* no running process.
C25_ProbeNeverRaises ==
    \A s \in Scanners :
        scan[s].probe # "none" =>
            LET pid == PidValue(scan[s].info)
            IN  /\ scan[s].probe \in {"true", "false"}
                /\ (pid.k # "num" \/ pid.n = 0 \/ ~IsPidAlive(pid.n))
                     => scan[s].probe = "false"

\* C26: no two port files of the registry hold descriptors with the same
\* port, and no two of the instances a listing has gathered or returned
\* have the same port.
C26_OneDescriptorPerPort ==
    /\ \A n1, n2 \in DOMAIN files :
          (n1 # n2 /\ IsPortFileName(n1) /\ IsPortFileName(n2)
             /\ JsonLoads(files[n1]).ok /\ JsonLoads(files[n2]).ok)
          => PortOf(JsonLoads(files[n1]).val) # PortOf(JsonLoads(files[n2]).val)
    /\ \A i, j \in 1..Len(scan[Client].instances) :
          i # j => PortOf(scan[Client].instances[i]) # PortOf(scan[Client].instances[j])
    /\ \A i, j \in 1..Len(cli.listed) : i # j => cli.listed[i] # cli.listed[j]
\* A listing returns the descriptor of a host that has published on the
\* port a host that has exited had published on.
C26_Witness ==
    /\ scan[Client].pc = "done"
    /\ \E b1, b2 \in born :
          /\ b1.published /\ b2.published
          /\ PortOf(b1.info) = PortOf(b2.info) /\ PidOf(b1.info) # PidOf(b2.info)
          /\ ~IsPidAlive(PidOf(b1.info)) /\ IsPidAlive(PidOf(b2.info))
          /\ scan[Client].instances = <<b2.info>>

(***************************************************************************)
(* The call specification: the client's tool calls against hosts that      *)
(* stay silent, exit, or send bytes that complete no document; the         *)
(* client's thread is scheduled as long as it waits for a response         *)
(***************************************************************************)

\* What listens at the far end of the client's connection writes a byte
\* of whitespace before anything else, while the client waits: the byte
\* arrives before the recv of the client times out.
HostTrickle ==
    /\ cli.pc = "recv" /\ cli.sock # 0
    /\ conns[cli.sock].hend # "closed"
    /\ conns[cli.sock].h2c = <<>> /\ conns[cli.sock].produced = 0
    /\ conns' = [conns EXCEPT ![cli.sock].h2c = <<" ">>]
    /\ UNCHANGED <<codec, sys, files, born, host, scan, cli, thr>>

\* A step of the thread that runs the tool call, and a step of it in
\* receive_full_response: recv returns bytes, returns none, or times out.
ClientStep ==
    \/ ResolveBegin \/ ResolveConnect
    \/ ScanFile(Client) \/ ScanRemove(Client)
    \/ SendCommand \/ ClientRecv \/ ClientRecvClosed \/ ClientRecvTimeout
ReceiveStep == ClientRecv \/ ClientRecvClosed \/ ClientRecvTimeout

CallNext ==
    \/ \E h \in Hosts : Crash(h)
    \/ HostTrickle
    \/ CallBegin
    \/ ClientStep
    \/ \E c \in DOMAIN conns : Finalize(c)

SpecCall == Init /\ [][CallNext]_vars /\ WF_vars(ReceiveStep)

\* C27: send_command, once it has sent the request and waits for the
\* response, returns or raises.
C27_CallReturns == (cli.pc = "recv") ~> (cli.pc # "recv")

\* C28: the command of a tool call is sent on the connection object the
\* client already had only when the probe of this call has succeeded; when
\* the probe has failed, the target has been resolved anew and the
\* connection the command is sent on is not the one that was probed.
C28_ReuseOnlyAfterProbe ==
    (cli.op = "call" /\ cli.phase = "command" /\ cli.pc \in {"send", "recv"})
    => /\ ~cli.res.done => cli.probe.result = "ok"
       /\ cli.probe.result = "failed" =>
            /\ cli.res.done
            /\ cli.sock # 0 /\ cli.sock # cli.probe.conn
\* The probe of the call failed on a connection, and the command is now
\* sent on another one.
C28_Witness ==
    /\ cli.op = "call" /\ cli.phase = "command" /\ cli.pc = "recv"
    /\ cli.probe.result = "failed" /\ cli.probe.conn # 0
    /\ cli.sock # cli.probe.conn

\* C29: when recv returns no bytes because the host has closed the
\* connection, send_command raises: "Incomplete JSON response received"
\* when chunks had been read, "Connection closed before receiving any
\* data" when none had; nothing is returned and the connection object has
\* no socket any more (a failed reuse probe is not raised to the caller:
\* the probe has failed).
C29_ZeroByteRead ==
    [][ (  cli.pc = "recv" /\ cli'.pc # "recv"
        /\ conns[cli.sock].h2c = <<>> /\ conns[cli.sock].hend = "closed"
        /\ ~(cli'.last.cause = "reset" /\ cli.phase # "probe"))
        => /\ cli'.sock = 0
           /\ IF cli.phase = "probe"
              THEN cli'.probe.result = "failed"
              ELSE /\ cli'.last.how = "raised"
                   /\ cli'.last.msg = CommunicationMsg(
                        IF cli.chunks = <<>>
                        THEN <<"Connection closed before receiving any data">>
                        ELSE <<"Incomplete JSON response received">>) ]_vars
\* A call has ended with the incomplete-response failure.
C29_Witness ==
    /\ cli.pc = "idle" /\ cli.last.how = "raised"
    /\ cli.last.msg = CommunicationMsg(<<"Incomplete JSON response received">>)
    /\ cli.last.cause = "incomplete"
    /\ cli.sock = 0

\* ---------------------------------------------------------------------
\* The serve loop fed by peers that write more than one request, or bytes
\* that are no request, on an accepted connection.
\* ---------------------------------------------------------------------
MaxWrites == 2

LastHalf(bytes) == SubSeq(bytes, Len(bytes) \div 2 + 1, Len(bytes))

\* What a peer writes: a request, a byte that is no JSON, documents that are
\* JSON but no request (no object, no type, params no mapping), and a
\* request in two writes.
PeerInputs ==
    {JsonDumps(Request("create_node", JObj(<<>>))), <<"}">>,
     JsonDumps(JArr(<<>>)), JsonDumps(JObj(<<>>)),
     JsonDumps(Request("create_node", JArr(<<>>))),
     FirstHalf(JsonDumps(Request("create_node", JObj(<<>>)))),
     LastHalf(JsonDumps(Request("create_node", JObj(<<>>))))}

PeerWrite(c) ==
    /\ c \in DOMAIN conns
    /\ conns[c].cend = "open" /\ conns[c].hend # "closed"
    /\ conns[c].sent < MaxWrites
    /\ \E bytes \in PeerInputs :
         conns' = [conns EXCEPT ![c] = [@ EXCEPT !.c2h = @ \o bytes, !.sent = @ + 1]]
    /\ UNCHANGED <<codec, sys, files, born, host, scan, cli, thr>>

\* The steps of the loop thread other than a recv that returns bytes.
FeedServe ==
    \E h \in Hosts, t \in 1..MaxThreads :
       \/ LoopAcceptEnter(h, t) \/ LoopAccept(h, t)
       \/ LoopRecvClosed(h, t) \/ LoopRecvTimeout(h, t)
       \/ LoopExec(h, t)

\* A recv that returns bytes, and the states in which one can happen.
FeedRecv == \E h \in Hosts, t \in 1..MaxThreads : LoopRecv(h, t)

RecvReady ==
    \E h \in Hosts, t \in 1..MaxThreads :
       /\ host[h].up /\ t \in DOMAIN thr[h] /\ AtServe(h, t)
       /\ host[h].client # 0
       /\ conns[host[h].client].hend = "accepted"
       /\ conns[host[h].client].c2h # <<>>

FeedNext ==
    \/ \E h \in Hosts : PeerConnect(h)
    \/ \E c \in 1..MaxPeers : PeerWrite(c) \/ PeerClose(c)
    \/ FeedServe \/ FeedRecv

\* One host is running, on the default port; nothing is connected.
FeedInit ==
    /\ CodecIdle /\ cli = ClientInit
    /\ scan = [s \in Scanners |-> ScanIdle]
    /\ conns = <<>>
    /\ RunningHosts(DEFAULT_PORT_RANGE[1], FALSE)

\* The loop thread runs whenever it can: weak fairness of its steps, written
\* out for the recv that returns bytes (it can happen exactly in the states
\* of RecvReady, and it always takes bytes from the connection).
SpecFeed ==
    /\ FeedInit /\ [][FeedNext]_vars
    /\ WF_vars(FeedServe)
    /\ ([]<>(~RecvReady) \/ []<><<FeedRecv>>_vars)

\* No bytes appended to b make it one JSON document: b starts with a byte
\* that opens no value, or with a complete object followed by a further
\* byte that is not whitespace.
Dead(b) ==
    \/ At(b, SkipWs(b, 1)) \in {"}", "]", ",", ":"}
    \/ \E k \in 1..(Len(b) - 1) :
         /\ b[k] = "}"
         /\ SkipWs(b, k + 1) <= Len(b)
         /\ \E r \in {JsonLoads(SubSeq(b, 1, k))} : r.ok /\ r.val.k = "obj"

\* C30: when the buffer of the host holds bytes that no further bytes can
\* complete, the host eventually writes a response on the connection it
\* holds or gives the connection up.
C30_DeadBufferResolved ==
    \A h \in Hosts, c \in 1..MaxPeers, n \in 0..MaxWrites :
       (  host[h].client = c /\ Dead(host[h].buffer)
       /\ conns[c].produced = n)
       ~> (host[h].client # c \/ conns[c].produced > n)

\* A parsed document that is no request: no object, no "type" member, or a
\* "params" member that is no object.
NotEnvelope(cmd) ==
    \/ cmd.k # "obj"
    \/ ~HasKey(cmd, <<"type">>)
    \/ GetKey(cmd, <<"params">>, JObj(<<>>)).k # "obj"

\* C31: a document that parses but is no request has left the buffer when it
\* is executed, and the step that executes it writes exactly one error
\* envelope on the connection and leaves the connection held and open.
C31_NotEnvelopeAnswered ==
    [][ \A h \in Hosts, t \in 1..MaxThreads :
          (  t \in DOMAIN thr[h] /\ thr[h][t].pc = "exec"
          /\ NotEnvelope(thr[h][t].cmd)
          /\ thr'[h][t].pc # "exec"
          /\ host[h].client # 0
          /\ conns[host[h].client].cend = "open"
          /\ conns[host[h].client].hend = "accepted")
          => LET c == host[h].client
             IN  /\ host[h].buffer = <<>> /\ host'[h].buffer = <<>>
                 /\ host'[h].client = c /\ conns'[c].hend = "accepted"
                 /\ conns'[c].produced = conns[c].produced + 1
                 /\ StatusOf(conns'[c].resp) = JStr(<<"error">>)
                 /\ conns'[c].h2c = conns[c].h2c \o JsonDumps(conns'[c].resp) ]_vars
\* Two documents that are no requests have been answered on one connection,
\* which the host still holds.
C31_Witness ==
    \E c \in DOMAIN conns :
       /\ host[1].client = c /\ conns[c].hend = "accepted" /\ conns[c].cend = "open"
       /\ conns[c].produced = 2 /\ conns[c].sent = 2
       /\ conns[c].resp = Error(MappingFault)
       /\ host[1].buffer = <<>>

\* The loop of h holds an open connection on which nothing waits to be read:
\* its next poll times out.
Polling(h) ==
    /\ host[h].up /\ host[h].client # 0
    /\ \E t \in DOMAIN thr[h] : AtServe(h, t)
    /\ conns[host[h].client].c2h = <<>>
    /\ conns[host[h].client].cend = "open"
    /\ conns[host[h].client].hend = "accepted"

\* C32: as long as the peer neither writes nor closes, a host that polls a
\* connection with nothing to read keeps the connection and its buffer as
\* they are; and when the buffer holds the first part of a request and the
\* rest is read, the request is decoded and executed.
C32_PollKeepsBuffer ==
    [][ \A h \in Hosts :
          /\ (  Polling(h)
             /\ conns'[host[h].client].c2h = <<>>
             /\ conns'[host[h].client].cend = "open")
             => /\ host'[h].client = host[h].client
                /\ host'[h].buffer = host[h].buffer
                /\ conns'[host[h].client].hend = "accepted"
          /\ \A t \in DOMAIN thr[h] :
                (  host[h].client # 0 /\ AtServe(h, t)
                /\ host[h].buffer # <<>>
                /\ host[h].buffer \o conns[host[h].client].c2h
                     = JsonDumps(Request("create_node", JObj(<<>>)))
                /\ conns'[host[h].client].c2h = <<>>
                /\ conns'[host[h].client].cend = "open"
                /\ conns[host[h].client].hend = "accepted")
                => /\ thr'[h][t].pc = "exec"
                   /\ thr'[h][t].cmd = Request("create_node", JObj(<<>>))
                   /\ host'[h].buffer = <<>> ]_vars
\* A request written in two parts has been answered with success on the
\* connection the host holds; nothing is left in the buffer.
C32_Witness ==
    \E c \in DOMAIN conns :
       /\ host[1].client = c /\ conns[c].hend = "accepted" /\ conns[c].cend = "open"
       /\ conns[c].sent = 2 /\ conns[c].produced = 1
       /\ conns[c].resp = Success(JObj(<<>>))
       /\ conns[c].c2h = <<>> /\ host[1].buffer = <<>>

\* ---------------------------------------------------------------------
\* One server object with start() and stop(), its loop threads running
\* whenever they can.
\* ---------------------------------------------------------------------
\* The steps of loop thread t of h other than a recv that returns bytes.
ThreadStep(h, t) ==
    \/ LoopAcceptEnter(h, t) \/ LoopAccept(h, t) \/ LoopAcceptTimeout(h, t)
    \/ LoopRecvClosed(h, t) \/ LoopRecvTimeout(h, t)
    \/ LoopExec(h, t) \/ LoopExit(h, t)

\* The states in which a recv of thread t of h returns bytes.
CanRecv(h, t) ==
    /\ host[h].up /\ t \in DOMAIN thr[h] /\ AtServe(h, t)
    /\ host[h].client # 0
    /\ conns[host[h].client].hend = "accepted"
    /\ conns[host[h].client].c2h # <<>>

\* Weak fairness of every loop thread, written out for the recv that
\* returns bytes.
SpecThreads ==
    /\ ListenerInit /\ [][ListenerNext]_vars
    /\ \A h \in Hosts, t \in 1..MaxThreads :
         /\ WF_vars(ThreadStep(h, t))
         /\ ([]<>(~CanRecv(h, t)) \/ []<><<LoopRecv(h, t)>>_vars)

\* Thread t of h is alive and stop() has been called since it was started.
StopRequested(h, t) ==
    /\ t \in DOMAIN thr[h]
    /\ \/ ~host[h].running
       \/ host[h].thread # t

\* C33: a loop thread whose stop has been requested eventually ends.
C33_StopEndsLoop ==
    \A h \in Hosts, t \in 1..MaxThreads :
       StopRequested(h, t) ~> (t \notin DOMAIN thr[h])

\* C34: the descriptor a running host has published stays in the registry:
\* no scan of another process removes it.
C34_LiveDescriptorKept ==
    \A h \in Hosts :
       (host[h].up /\ host[h].port_file_path # <<>>) => Advertised(h)

\* C35: a server object has at most one loop thread alive.
C35_OneLoopPerListener ==
    \A h \in Hosts : Cardinality(DOMAIN thr[h]) <= 1

\* C36: when the server accepts a connection its buffer is empty.
C36_AcceptWithEmptyBuffer ==
    [][\A c \in DOMAIN conns :
         (conns[c].hend = "backlog" /\ conns'[c].hend = "accepted")
           => /\ host[conns[c].host].buffer = <<>>
              /\ host'[conns[c].host].buffer = <<>>]_vars

\* C37: a pinned port changes only when connect_to_houdini has found the
\* port it was given among the instances of its scan, and then to that port;
\* while a port is pinned, the connection object is one for that port, every
\* port get_houdini_connection resolves is the pinned port and every
\* connection the client opens is one to it.
C37_PinnedStaysPinned ==
    /\ [](cli.target_port # 0 =>
            /\ cli.connection # 0 => cli.port = cli.target_port
            /\ cli.sock # 0 => conns[cli.sock].port = cli.target_port)
    /\ [][ cli.target_port # 0 =>
            /\ \/ cli'.target_port = cli.target_port
               \/ /\ cli.pc = "validate" /\ scan[Client].pc = "done"
                  /\ cli'.target_port = cli.arg
                  /\ \E i \in 1..Len(scan[Client].instances) :
                        PortOf(scan[Client].instances[i]) = cli.arg
            /\ (cli'.res.done /\ cli'.res # cli.res) =>
                  cli'.res.port = cli.target_port
            /\ Len(conns') > Len(conns) =>
                  conns'[Len(conns')].port = cli.target_port ]_vars
\* A call made after connect_to_houdini had connected to the pinned
\* instance and that instance has gone, while another instance is listening
\* and published, has tried the pinned port and failed.
C37_Witness ==
    /\ cli.pc = "idle" /\ cli.target_port \in cli.confirmed
    /\ cli.res.done /\ cli.res.port = cli.target_port
    /\ cli.last.cause = "unreachable"
    /\ Listening(cli.target_port) = {}
    /\ \E h \in Hosts : host[h].up /\ host[h].running /\ Advertised(h)

\* ---------------------------------------------------------------------
\* The client calling a server object that is stopped and started again.
\* ---------------------------------------------------------------------
RestartNext ==
    \/ \E h \in Hosts :
         \/ StopBegin(h) \/ StopFinish(h)
         \/ StartBegin(h) \/ StartBind(h)
         \/ WriteOpenTmp(h) \/ WriteDump(h) \/ WriteReplace(h)
         \/ StartThread(h)
         \/ \E t \in 1..MaxThreads :
              \/ LoopAcceptEnter(h, t) \/ LoopAccept(h, t) \/ LoopAcceptTimeout(h, t)
              \/ LoopRecv(h, t) \/ LoopRecvClosed(h, t) \/ LoopRecvTimeout(h, t)
              \/ LoopExec(h, t) \/ LoopExit(h, t)
    \/ CallBegin \/ ResolveBegin \/ ResolveConnect \/ ScanFile(Client)
    \/ SendCommand \/ ClientRecv \/ ClientRecvClosed \/ ClientRecvTimeout
    \/ \E c \in DOMAIN conns : Finalize(c)

SpecRestart == FeedInit /\ [][RestartNext]_vars

\* C38: the response the client decodes as the outcome of a send_command
\* is the one the host wrote for the request that send_command sent: the
\* latest request on the connection it was read from.
C38_NoCrossTalk ==
    [][ \A c \in DOMAIN conns :
          (c = cli.sock /\ cli.pc = "recv" /\ conns'[c].got = conns[c].got + 1)
            => /\ Len(conns[c].answers) >= conns'[c].got
               /\ conns[c].answers[conns'[c].got] = <<c, conns[c].sent>> ]_vars

\* C39: a file leaves the registry only in the remove step of a scan whose
\* last read found a pid that is not empty and failed the probe; and when
\* the client's scan reads a descriptor that has no pid, or the pid 0, it
\* removes nothing, does not go on to remove, and has the descriptor among
\* what it returns.
C39_PurgeOnlyDeadPid ==
    [][ /\ \A n \in DOMAIN files \ DOMAIN files' :
             \E s \in Scanners :
                /\ scan[s].pc = "remove" /\ scan[s].name = n
                /\ Truthy(PidValue(scan[s].info))
                /\ ProbePid(PidValue(scan[s].info)) = "false"
        /\ \A n \in scan[Client].todo :
             (  scan'[Client].todo = scan[Client].todo \ {n}
             /\ n \in DOMAIN files /\ IsPortFileName(n))
             => \E r \in {JsonLoads(files[n])} :
                  (r.ok /\ r.val.k = "obj" /\ ~Truthy(PidValue(r.val)))
                  => /\ files' = files
                     /\ scan'[Client].pc # "remove"
                     /\ r.val \in Items(scan'[Client].instances) ]_vars
\* A second listing is over and has returned the port of the descriptor
\* without a pid, which is still in the registry.
C39_Witness ==
    /\ cli.pc = "idle" /\ cli.scans >= 2
    /\ ForeignFile \in DOMAIN files
    /\ files[ForeignFile] = JsonDumpIndent(ForeignInfo(<<>>))
    /\ ForeignPort \in Items(cli.listed)
    /\ scan[Client].dead = {}

\* ---------------------------------------------------------------------
\* The plugin functions init_houdinimcp and stop_houdinimcp, which keep
\* one server in hou.session, on a machine where other programs hold some
\* ports.  start() and stop() are the calls these functions make, and
\* stop() is also called on the server init_houdinimcp returned.
\* ---------------------------------------------------------------------
MaxInits == 3

\* The session holds a server: hasattr(hou.session, "houdinimcp_server")
\* and hou.session.houdinimcp_server.
SessionHolds(h) == host[h].session # 0

\* A faulty variant that constructs and starts a server whatever the
\* session holds.
InitHoudinimcpAlways(h) ==
    /\ host[h].up /\ host[h].call = "none" /\ host[h].inits < MaxInits
    /\ host[h].mpc \in {"new", "stopped", "failed"}
    /\ host' = [host EXCEPT ![h] =
                  [HostOff EXCEPT !.up = TRUE, !.pid = host[h].pid,
                                  !.threads = host[h].threads,
                                  !.stops = host[h].stops,
                                  !.session = host[h].session,
                                  !.obj = host[h].obj + 1,
                                  !.inits = host[h].inits + 1,
                                  !.result = host[h].result,
                                  !.call = "init", !.mpc = "new"]]
    /\ UNCHANGED <<codec, sys, files, born, scan, cli, conns, thr>>

\* init_houdinimcp() up to its call of start(): the server of the session
\* is returned if there is one, else server = HoudiniMCPServer(), with no
\* port given and every field as __init__ sets it.
InitHoudinimcp(h) ==
    /\ host[h].up /\ host[h].call = "none" /\ host[h].inits < MaxInits
    /\ IF SessionHolds(h)
       THEN host' = [host EXCEPT ![h].inits = @ + 1, ![h].result = host[h].session]
       ELSE /\ host[h].mpc \in {"new", "stopped", "failed"}
            /\ host' = [host EXCEPT ![h] =
                          [HostOff EXCEPT !.up = TRUE, !.pid = host[h].pid,
                                          !.threads = host[h].threads,
                                          !.stops = host[h].stops,
                                          !.obj = host[h].obj + 1,
                                          !.inits = host[h].inits + 1,
                                          !.result = host[h].result,
                                          !.call = "init", !.mpc = "new"]]
    /\ UNCHANGED <<codec, sys, files, born, scan, cli, conns, thr>>

\* if server.start(): the call of start() that init_houdinimcp makes.
InitStart(h) == host[h].call = "init" /\ StartBegin(h)

\* A faulty variant that stores the server whatever start() returned.
InitReturnStores(h) ==
    /\ host[h].up /\ host[h].call = "init" /\ host[h].mpc \in {"started", "failed"}
    /\ host' = [host EXCEPT ![h].call = "none",
                            ![h].session = host[h].obj,
                            ![h].result = host[h].obj]
    /\ UNCHANGED <<codec, sys, files, born, scan, cli, conns, thr>>

\* start() has returned: on True the server is stored in hou.session and
\* returned, on False None is returned.
InitReturn(h) ==
    /\ host[h].up /\ host[h].call = "init" /\ host[h].mpc \in {"started", "failed"}
    /\ host' = [host EXCEPT ![h].call = "none",
                            ![h].session = IF host[h].mpc = "started"
                                           THEN host[h].obj ELSE @,
                            ![h].result = IF host[h].mpc = "started"
                                          THEN host[h].obj ELSE 0]
    /\ UNCHANGED <<codec, sys, files, born, scan, cli, conns, thr>>

\* stop_houdinimcp() with a server in the session, up to its call of
\* stop(); with none it prints and returns.
StopHoudinimcp(h) ==
    /\ host[h].up /\ host[h].call = "none" /\ SessionHolds(h)
    /\ host' = [host EXCEPT ![h].call = "stop"]
    /\ UNCHANGED <<codec, sys, files, born, scan, cli, conns, thr>>

\* hou.session.houdinimcp_server.stop(), and server.stop() called on the
\* server init_houdinimcp returned: no call is made while init_houdinimcp
\* runs.
SessionStop(h) == host[h].call # "init" /\ StopBegin(h)

\* A faulty variant that leaves the stopped server in the session.
StopDelKeeps(h) ==
    /\ host[h].up /\ host[h].call = "stop" /\ host[h].mpc = "stopped"
    /\ host' = [host EXCEPT ![h].call = "none"]
    /\ UNCHANGED <<codec, sys, files, born, scan, cli, conns, thr>>

\* stop() has returned (of a server that was stopped before, stop()
\* changes nothing): del hou.session.houdinimcp_server.
StopDel(h) ==
    /\ host[h].up /\ host[h].call = "stop" /\ host[h].mpc = "stopped"
    /\ host' = [host EXCEPT ![h].call = "none", ![h].session = 0]
    /\ UNCHANGED <<codec, sys, files, born, scan, cli, conns, thr>>


SessionNext ==
    \E h \in Hosts :
       \/ Launch(h) \/ Crash(h)
       \/ InitHoudinimcp(h) \/ InitStart(h) \/ ScanFile(h) \/ ScanRemove(h)
       \/ StartBind(h) \/ WriteOpenTmp(h) \/ WriteDump(h) \/ WriteReplace(h)
       \/ StartThread(h) \/ InitReturn(h)
       \/ StopHoudinimcp(h) \/ SessionStop(h) \/ StopFinish(h) \/ StopDel(h)
       \/ \E t \in 1..MaxThreads : LoopExit(h, t)

SpecSession == StartInit /\ [][SessionNext]_vars

\* C40: init_houdinimcp called while the session holds a server returns
\* that server and constructs nothing, binds nothing and writes nothing;
\* a server enters the session only in the step that follows a start() of
\* it that returned True (socket bound, descriptor published, thread
\* started); stop_houdinimcp leaves the session empty, and init_houdinimcp
\* called with an empty session constructs a new server, on which it is
\* about to call start().
C40_InitIdempotent ==
    [][ \A h \in Hosts :
          /\ (host[h].up /\ host'[h].inits = host[h].inits + 1 /\ SessionHolds(h))
               => /\ host'[h].result = host[h].session
                  /\ host'[h] = [host[h] EXCEPT !.inits = @ + 1,
                                                !.result = host[h].session]
                  /\ files' = files /\ thr' = thr
          /\ (host'[h].session # host[h].session /\ host'[h].session # 0)
               => /\ host[h].call = "init" /\ host[h].mpc = "started"
                  /\ host'[h].session = host[h].obj
                  /\ host'[h].result = host[h].obj
                  /\ host[h].running /\ host[h].bound # 0
                  /\ host[h].port_file_path # <<>>
                  /\ host[h].thread # 0
          /\ (host[h].call = "stop" /\ host'[h].call = "none" /\ host'[h].up)
               => host'[h].session = 0
          /\ (host[h].up /\ host'[h].inits = host[h].inits + 1 /\ ~SessionHolds(h))
               => /\ host'[h].obj = host[h].obj + 1
                  /\ host'[h].call = "init" /\ host'[h].mpc = "new"
                  /\ ~host'[h].running /\ host'[h].port = 0
                  /\ host'[h].buffer = <<>> /\ host'[h].socket = 0 ]_vars

\* A host whose init_houdinimcp was called three times: the first call
\* started and stored a server, the second returned it, stop_houdinimcp
\* then emptied the session, and the third call has started and stored
\* another server.
C40_Witness ==
    \E h \in Hosts :
       /\ host[h].up /\ host[h].inits = MaxInits /\ host[h].call = "none"
       /\ host[h].obj = 2 /\ host[h].session = 2 /\ host[h].result = 2
       /\ host[h].stops = 1 /\ host[h].running

====
